---- MODULE Spec2Model ----
(***************************************************************************)
(* Omega metadata registries (components/omega/src/infra/MetaData.h and    *)
(* the implementation that follows it in the same file): the three static  *)
(* maps AllDims, AllFields and AllGroups, the objects they point to, and   *)
(* one action per member function.                                         *)
(*                                                                         *)
(* Objects live in heaps indexed by small integers that stand for the      *)
(* addresses held by std::shared_ptr; 0 is nullptr.  An object is alive as *)
(* long as a registry or a caller-held pointer refers to it.  A std::map   *)
(* is a total function over the universe of keys with the value Absent for *)
(* a key that is not in the map, so that "key present with a null value"   *)
(* (what operator[] would insert) differs from "key not present".          *)
(*                                                                         *)
(* Every action records the call in op, its return value in ret and what   *)
(* it wrote to its output parameter in out; rep is 2 when the call is a    *)
(* MetaDim::create or an addField that repeats the call before it with     *)
(* identical arguments, and 1 otherwise.  heldDim, heldField and heldGroup *)
(* are shared pointers a caller keeps, heldMap is the plain pointer to the *)
(* MetaMap of a record a caller keeps, heldList is a std::set a caller     *)
(* keeps.                                                                  *)
(***************************************************************************)
EXTENDS Integers, Sequences, FiniteSets, TLC

VARIABLES AllDims, dimHeap, AllFields, fieldHeap, AllGroups, groupHeap,
          heldDim, heldField, heldMap, heldGroup, heldList, op, rep, ret, out

vars == <<AllDims, dimHeap, AllFields, fieldHeap, AllGroups, groupHeap,
          heldDim, heldField, heldMap, heldGroup, heldList, op, rep, ret, out>>

dimVars   == <<AllDims, dimHeap, heldDim>>
fieldVars == <<AllFields, fieldHeap, heldField, heldMap>>
groupVars == <<AllGroups, groupHeap, heldGroup, heldList>>

(***************************************************************************)
(* Bounds of the model.                                                    *)
(***************************************************************************)
MaxLength == 1
MaxVal == 2
MaxNumDims == 2
MaxPairs == 2
MaxBatch == 3

(***************************************************************************)
(* Encodings.                                                              *)
(***************************************************************************)
NULL == 0
Absent == -1

RetPtr(p)    == [t |-> "ptr", v |-> p]
RetStatus(c) == [t |-> "status", v |-> c]
RetBool(b)   == [t |-> "bool", v |-> IF b THEN 1 ELSE 0]
RetInt(n)    == [t |-> "int", v |-> n]
RetVoid      == [t |-> "void", v |-> 0]
RetThrow     == [t |-> "bad_any_cast", v |-> 0]
RetCrash     == [t |-> "crash", v |-> 0]

IsPtr(r, p)    == r.t = "ptr" /\ r.v = p
IsStatus(r, c) == r.t = "status" /\ r.v = c
IsBool(r, b)   == r.t = "bool" /\ r.v = (IF b THEN 1 ELSE 0)
IsInt(r, n)    == r.t = "int" /\ r.v = n

\* A std::any: the kind of the object it holds and the object's value.
Kinds == {"I4", "I8", "R4", "R8", "bool", "string"}
AnyOf(k, x) == [kind |-> k, val |-> x]
NoValue == AnyOf("none", 0)

NoOut == [Value |-> NoValue, Dimensions |-> <<>>, List |-> {}, Walk |-> <<>>, Entries |-> <<>>]

Op(name, h, Name, num, Value) ==
    [name |-> name, h |-> h, Name |-> Name, num |-> num, Value |-> Value]

Called(name, h, Name, num, Value) ==
    /\ op' = Op(name, h, Name, num, Value)
    /\ rep' = IF /\ name \in {"MetaDim::create", "MetaGroup::addField"}
                 /\ op = Op(name, h, Name, num, Value)
              THEN 2 ELSE 1

(***************************************************************************)
(* Universes of names.  The sequences list the names in std::string order, *)
(* the order in which a std::map or std::set iterates.                     *)
(***************************************************************************)
DimNameSeq == <<"D1", "D2", "D3">>
DimNameSet == {DimNameSeq[i] : i \in 1..Len(DimNameSeq)}
FieldNameSeq == <<"F1", "F2">>
FieldNameSet == {FieldNameSeq[i] : i \in 1..Len(FieldNameSeq)}
GroupNameSet == {"G1", "G2"}

DimIds   == 1..(Cardinality(DimNameSet) + 1)
Lengths  == (-1)..MaxLength

(***************************************************************************)
(* MetaDim                                                                 *)
(***************************************************************************)
FreeDim == [DimName |-> "", Length |-> 0]

\* An unused address, as std::make_shared returns one.
DimInUse(i) == heldDim = i \/ \E n \in DimNameSet : AllDims[n] = i

NewDim == CHOOSE i \in DimIds :
             /\ ~DimInUse(i)
             /\ \A j \in DimIds : ~DimInUse(j) => i <= j

\* Objects no shared_ptr refers to any more are freed.
DimHeapAfter(dims, heap) ==
    [i \in DimIds |-> IF heldDim = i \/ \E n \in DimNameSet : dims[n] = i
                      THEN heap[i] ELSE FreeDim]

MetaDimHas(Name) == AllDims[Name] # Absent

MetaDimGet(Name) == IF ~MetaDimHas(Name) THEN NULL ELSE AllDims[Name]

\* Faulty variant: only the dimensions of positive length are counted.
getNumDefinedDims_PositiveOnly ==
    Cardinality({n \in DimNameSet : AllDims[n] # Absent /\ dimHeap[AllDims[n]].Length > 0})

getNumDefinedDims == Cardinality({n \in DimNameSet : AllDims[n] # Absent})

\* Faulty variant: the length of the existing dimension is never compared.
LengthDiffers_Never(Dim, Length) == FALSE

LengthDiffers(Dim, Length) == dimHeap[Dim].Length # Length

\* Faulty variant: create registers a new object whether or not the name is defined.
MetaDim_create_AlwaysNew(Name, Length) ==
    LET Dim == CHOOSE i \in DimIds : \A n \in DimNameSet : AllDims[n] # i IN
    /\ Called("MetaDim::create", NULL, Name, Length, NoValue)
    /\ out' = NoOut
    /\ AllDims' = [AllDims EXCEPT ![Name] = Dim]
    /\ dimHeap' = [i \in DimIds |->
                     IF i = Dim THEN [DimName |-> Name, Length |-> Length]
                     ELSE IF \E n \in DimNameSet \ {Name} : AllDims[n] = i
                          THEN dimHeap[i] ELSE FreeDim]
    /\ ret' = RetPtr(Dim)
    /\ UNCHANGED <<heldDim, fieldVars, groupVars>>

\* Faulty variant: a create with another length gives the existing
\* dimension that length.
MetaDim_create_Resize(Name, Length) ==
    /\ Called("MetaDim::create", NULL, Name, Length, NoValue)
    /\ out' = NoOut
    /\ IF AllDims[Name] # Absent
       THEN /\ ret' = RetPtr(AllDims[Name])
            /\ dimHeap' = [dimHeap EXCEPT ![AllDims[Name]].Length = Length]
            /\ UNCHANGED AllDims
       ELSE LET Dim == NewDim IN
            /\ dimHeap' = [dimHeap EXCEPT ![Dim] = [DimName |-> Name, Length |-> Length]]
            /\ AllDims' = [AllDims EXCEPT ![Name] = Dim]
            /\ ret' = RetPtr(Dim)
    /\ UNCHANGED <<heldDim, fieldVars, groupVars>>

MetaDim_create(Name, Length) ==
    /\ Called("MetaDim::create", NULL, Name, Length, NoValue)
    /\ out' = NoOut
    /\ IF MetaDimHas(Name)
       THEN LET Dim == MetaDimGet(Name) IN
            /\ ret' = IF LengthDiffers(Dim, Length) THEN RetPtr(NULL) ELSE RetPtr(Dim)
            /\ UNCHANGED dimVars
       ELSE LET Dim == NewDim IN
            /\ dimHeap' = [dimHeap EXCEPT ![Dim] = [DimName |-> Name, Length |-> Length]]
            /\ AllDims' = [AllDims EXCEPT ![Name] = Dim]
            /\ ret' = RetPtr(Dim)
            /\ UNCHANGED heldDim
    /\ UNCHANGED <<fieldVars, groupVars>>

\* Faulty variant: destroy reports success without erasing the map entry.
MetaDim_destroy_NoErase(Name) ==
    /\ Called("MetaDim::destroy", NULL, Name, 0, NoValue)
    /\ out' = NoOut
    /\ ret' = IF AllDims[Name] = Absent THEN RetStatus(-1) ELSE RetStatus(0)
    /\ UNCHANGED <<dimVars, fieldVars, groupVars>>

MetaDim_destroy(Name) ==
    /\ Called("MetaDim::destroy", NULL, Name, 0, NoValue)
    /\ out' = NoOut
    /\ IF ~MetaDimHas(Name)
       THEN /\ ret' = RetStatus(-1)
            /\ UNCHANGED dimVars
       ELSE LET dims == [AllDims EXCEPT ![Name] = Absent] IN
            /\ AllDims' = dims
            /\ dimHeap' = DimHeapAfter(dims, dimHeap)
            /\ ret' = RetStatus(0)
            /\ UNCHANGED heldDim
    /\ UNCHANGED <<fieldVars, groupVars>>

MetaDim_clear ==
    /\ Called("MetaDim::clear", NULL, "", 0, NoValue)
    /\ out' = NoOut
    /\ ret' = RetVoid
    /\ AllDims' = [n \in DimNameSet |-> Absent]
    /\ dimHeap' = DimHeapAfter([n \in DimNameSet |-> Absent], dimHeap)
    /\ UNCHANGED <<heldDim, fieldVars, groupVars>>

MetaDim_has(Name) ==
    /\ Called("MetaDim::has", NULL, Name, 0, NoValue)
    /\ out' = NoOut
    /\ ret' = RetBool(MetaDimHas(Name))
    /\ UNCHANGED <<dimVars, fieldVars, groupVars>>

MetaDim_get(Name) ==
    /\ Called("MetaDim::get", NULL, Name, 0, NoValue)
    /\ out' = NoOut
    /\ ret' = RetPtr(MetaDimGet(Name))
    /\ UNCHANGED <<dimVars, fieldVars, groupVars>>

\* Dim->getLength() on the pointer MetaDim::get(Name) returned.
MetaDim_getLength(Name) ==
    /\ MetaDimHas(Name)
    /\ Called("MetaDim::getLength", AllDims[Name], Name, 0, NoValue)
    /\ out' = NoOut
    /\ ret' = RetInt(dimHeap[AllDims[Name]].Length)
    /\ UNCHANGED <<dimVars, fieldVars, groupVars>>

\* Faulty variant: an undefined name yields the length of an empty object.
MetaDim_getDimLength_NoSentinel(Name) ==
    /\ Called("MetaDim::getDimLength", NULL, Name, 0, NoValue)
    /\ out' = NoOut
    /\ ret' = IF AllDims[Name] # Absent THEN RetInt(dimHeap[AllDims[Name]].Length)
                                        ELSE RetInt(FreeDim.Length)
    /\ UNCHANGED <<dimVars, fieldVars, groupVars>>

MetaDim_getDimLength(Name) ==
    /\ Called("MetaDim::getDimLength", NULL, Name, 0, NoValue)
    /\ out' = NoOut
    /\ ret' = IF MetaDimHas(Name) THEN RetInt(dimHeap[AllDims[Name]].Length)
                                  ELSE RetInt(-1)
    /\ UNCHANGED <<dimVars, fieldVars, groupVars>>

MetaDim_getNumDefinedDims ==
    /\ Called("MetaDim::getNumDefinedDims", NULL, "", 0, NoValue)
    /\ out' = NoOut
    /\ ret' = RetInt(getNumDefinedDims)
    /\ UNCHANGED <<dimVars, fieldVars, groupVars>>

\* MetaDim::Iter is a position in the key order of AllDims: the index of the
\* key in DimNameSeq, and one past the last index for end().
MetaDimEnd == Len(DimNameSeq) + 1

\* Faulty variant: operator++ steps over the element that follows.
IterNext_SkipOne(It) ==
    LET later == {k \in (It + 1)..Len(DimNameSeq) : AllDims[DimNameSeq[k]] # Absent} IN
    IF Cardinality(later) < 2 THEN MetaDimEnd
    ELSE CHOOSE k \in later : Cardinality({j \in later : j < k}) = 1

\* ++It: the next key that is in the map, begin() being the step from
\* before the first key.
IterNext(It) ==
    LET later == {k \in (It + 1)..Len(DimNameSeq) : AllDims[DimNameSeq[k]] # Absent} IN
    IF later = {} THEN MetaDimEnd
    ELSE CHOOSE k \in later : \A j \in later : k <= j

MetaDimBegin == IterNext(0)

\* for (auto It = MetaDim::begin(); It != MetaDim::end(); ++It), reading
\* It->first and the length found under that name at each step.
RECURSIVE walkDims(_)
walkDims(It) ==
    IF It = MetaDimEnd THEN <<>>
    ELSE LET Name == DimNameSeq[It] IN
         <<[first |-> Name, Length |-> dimHeap[AllDims[Name]].Length]>>
            \o walkDims(IterNext(It))

MetaDim_walk ==
    /\ Called("MetaDim::begin..end", NULL, "", 0, NoValue)
    /\ out' = [NoOut EXCEPT !.Walk = walkDims(MetaDimBegin)]
    /\ ret' = RetVoid
    /\ UNCHANGED <<dimVars, fieldVars, groupVars>>

\* A caller keeps the shared_ptr that get(Name) returns, and lets go of the
\* one it kept before.
HoldDim(Name) ==
    /\ MetaDimHas(Name)
    /\ heldDim # AllDims[Name]
    /\ Called("hold dim", AllDims[Name], Name, 0, NoValue)
    /\ out' = NoOut
    /\ ret' = RetPtr(AllDims[Name])
    /\ heldDim' = AllDims[Name]
    /\ dimHeap' = [i \in DimIds |->
                     IF \E n \in DimNameSet : AllDims[n] = i THEN dimHeap[i] ELSE FreeDim]
    /\ UNCHANGED <<AllDims, fieldVars, groupVars>>

ReleaseDim ==
    /\ heldDim # NULL
    /\ Called("release dim", heldDim, "", 0, NoValue)
    /\ out' = NoOut
    /\ ret' = RetVoid
    /\ heldDim' = NULL
    /\ dimHeap' = [i \in DimIds |->
                     IF \E n \in DimNameSet : AllDims[n] = i THEN dimHeap[i] ELSE FreeDim]
    /\ UNCHANGED <<AllDims, fieldVars, groupVars>>

\* getLength() through the pointer the caller keeps.
HeldDim_getLength ==
    /\ heldDim # NULL
    /\ Called("MetaDim::getLength", heldDim, dimHeap[heldDim].DimName, 0, NoValue)
    /\ out' = NoOut
    /\ ret' = RetInt(dimHeap[heldDim].Length)
    /\ UNCHANGED <<dimVars, fieldVars, groupVars>>

(***************************************************************************)
(* MetaData                                                                *)
(***************************************************************************)
EntryNameSeq == <<"Description", "E1", "E2", "FillValue", "StdName", "Units",
                  "ValidMax", "ValidMin">>
EntryNameSet == {EntryNameSeq[i] : i \in 1..Len(EntryNameSeq)}

FieldIds == 1..(Cardinality(FieldNameSet) + 2)

NoEntries == [e \in EntryNameSet |-> NoValue]

\* What std::make_shared<MetaData>() constructs: value-initialised members.
FreeField == [FieldName |-> "", MetaMap |-> NoEntries, NDims |-> 0, DimNames |-> <<>>]

FieldInUse(i) == heldField = i \/ \E n \in FieldNameSet : AllFields[n] = i

NewField == CHOOSE i \in FieldIds :
               /\ ~FieldInUse(i)
               /\ \A j \in FieldIds : ~FieldInUse(j) => i <= j

\* Faulty variant: a record is freed as soon as the map drops it, whoever
\* else holds it.
FieldHeapAfter_IgnoreHeld(fields, held, heap) ==
    [i \in FieldIds |-> IF \E n \in FieldNameSet : fields[n] = i THEN heap[i] ELSE FreeField]

FieldHeapAfter(fields, held, heap) ==
    [i \in FieldIds |-> IF held = i \/ \E n \in FieldNameSet : fields[n] = i
                        THEN heap[i] ELSE FreeField]

\* What a plain pointer into an object is once the object has been freed.
Dangling == Absent

\* The pointer a caller keeps to the MetaMap of a record, after the map has
\* become fields and the caller holds held: it keeps no record alive.
MapPtrAfter(fields, held) ==
    IF heldMap \in FieldIds /\ held # heldMap /\ \A n \in FieldNameSet : fields[n] # heldMap
    THEN Dangling ELSE heldMap

MetaDataHas(Name) == AllFields[Name] # Absent

\* Faulty variant: the map is read without the has() check.
MetaDataGet_NoCheck(Name) == AllFields[Name]

MetaDataGet(Name) == IF ~MetaDataHas(Name) THEN NULL ELSE AllFields[Name]

hasEntry(Data, Name) == Data.MetaMap[Name] # NoValue

\* The member functions that change one object, as functions of the object:
\* the object afterwards and the value returned.
\* Faulty variant: an existing entry is overwritten before the error is returned.
addEntry_Overwrite(Data, Name, Value) ==
    [Data   |-> [Data EXCEPT !.MetaMap[Name] = Value],
     RetVal |-> IF hasEntry(Data, Name) THEN -1 ELSE 0]

addEntry(Data, Name, Value) ==
    IF hasEntry(Data, Name)
    THEN [Data |-> Data, RetVal |-> -1]
    ELSE [Data |-> [Data EXCEPT !.MetaMap[Name] = Value], RetVal |-> 0]

\* Faulty variant: the whole map is emptied, not the one entry.
removeEntry_ClearAll(Data, Name) ==
    IF Data.MetaMap[Name] = NoValue
    THEN [Data |-> Data, RetVal |-> -1]
    ELSE [Data |-> [Data EXCEPT !.MetaMap = NoEntries], RetVal |-> 0]

removeEntry(Data, Name) ==
    IF ~hasEntry(Data, Name)
    THEN [Data |-> Data, RetVal |-> -1]
    ELSE [Data |-> [Data EXCEPT !.MetaMap[Name] = NoValue], RetVal |-> 0]

\* Faulty variant: the R4 overload casts to R8.
AnyCastOk_R4AsR8(Stored, Kind) == Stored.kind = (IF Kind = "R4" THEN "R8" ELSE Kind)

\* std::any_cast<Kind>(MetaMap[Name]): the held value when the held type is
\* exactly Kind, std::bad_any_cast otherwise.
AnyCastOk(Stored, Kind) == Stored.kind = Kind

\* Faulty variant: for a name that is taken, the existing record is handed back.
createEmpty_ReturnExisting(Name) ==
    IF MetaDataHas(Name)
    THEN [Data |-> AllFields[Name], fields |-> AllFields, heap |-> fieldHeap]
    ELSE LET Data == NewField IN
         [Data   |-> Data,
          fields |-> [AllFields EXCEPT ![Name] = Data],
          heap   |-> [fieldHeap EXCEPT ![Data] = [FreeField EXCEPT !.FieldName = Name]]]

\* Faulty variant: a new record starts with an empty Description entry.
createEmpty_WithDescription(Name) ==
    IF AllFields[Name] # Absent
    THEN [Data |-> NULL, fields |-> AllFields, heap |-> fieldHeap]
    ELSE LET Data == NewField IN
         [Data   |-> Data,
          fields |-> [AllFields EXCEPT ![Name] = Data],
          heap   |-> [fieldHeap EXCEPT ![Data] =
                        [FreeField EXCEPT !.FieldName = Name,
                                          !.MetaMap["Description"] = AnyOf("string", 0)]]]

\* Faulty variant: a record of that name that a caller has kept alive is put
\* back into the map in place of a new one.
createEmpty_Revive(Name) ==
    IF AllFields[Name] # Absent
    THEN [Data |-> NULL, fields |-> AllFields, heap |-> fieldHeap]
    ELSE IF heldField # NULL /\ fieldHeap[heldField].FieldName = Name
    THEN [Data   |-> heldField,
          fields |-> [AllFields EXCEPT ![Name] = heldField],
          heap   |-> fieldHeap]
    ELSE LET Data == NewField IN
         [Data   |-> Data,
          fields |-> [AllFields EXCEPT ![Name] = Data],
          heap   |-> [fieldHeap EXCEPT ![Data] = [FreeField EXCEPT !.FieldName = Name]]]

\* create(Name): the new registry, the new heap and the pointer returned.
createEmpty(Name) ==
    IF MetaDataHas(Name)
    THEN [Data |-> NULL, fields |-> AllFields, heap |-> fieldHeap]
    ELSE LET Data == NewField IN
         [Data   |-> Data,
          fields |-> [AllFields EXCEPT ![Name] = Data],
          heap   |-> [fieldHeap EXCEPT ![Data] = [FreeField EXCEPT !.FieldName = Name]]]

\* Faulty variant: the last pair of a list of several pairs is left out.
RECURSIVE addPairs_DropLast(_, _)
addPairs_DropLast(Data, MetaPairs) ==
    IF Len(MetaPairs) = 0 THEN Data
    ELSE IF Len(MetaPairs) = 1 /\ Data.MetaMap # NoEntries THEN Data
    ELSE addPairs_DropLast(addEntry(Data, Head(MetaPairs).first, Head(MetaPairs).second).Data,
                           Tail(MetaPairs))

\* Faulty variant: a name that comes again replaces the value stored before.
RECURSIVE addPairs_LastWins(_, _)
addPairs_LastWins(Data, MetaPairs) ==
    IF MetaPairs = <<>> THEN Data
    ELSE addPairs_LastWins([Data EXCEPT !.MetaMap[Head(MetaPairs).first] = Head(MetaPairs).second],
                           Tail(MetaPairs))

RECURSIVE addPairs(_, _)
addPairs(Data, MetaPairs) ==
    IF MetaPairs = <<>> THEN Data
    ELSE addPairs(addEntry(Data, Head(MetaPairs).first, Head(MetaPairs).second).Data,
                  Tail(MetaPairs))

\* Faulty variant: the two bounds of the valid range are stored crosswise.
fillFull_SwapMinMax(Data, Description, Units, StdName, ValidMin, ValidMax, FillValue, NumDims, Dimensions) ==
    [Data EXCEPT !.NDims = NumDims, !.DimNames = Dimensions,
                 !.MetaMap["Description"] = AnyOf("string", Description),
                 !.MetaMap["Units"] = AnyOf("string", Units),
                 !.MetaMap["StdName"] = AnyOf("string", StdName),
                 !.MetaMap["ValidMin"] = ValidMax,
                 !.MetaMap["ValidMax"] = ValidMin,
                 !.MetaMap["FillValue"] = FillValue]

fillFull(Data, Description, Units, StdName, ValidMin, ValidMax, FillValue, NumDims, Dimensions) ==
    addPairs([Data EXCEPT !.NDims = NumDims, !.DimNames = Dimensions],
             << [first |-> "Description", second |-> AnyOf("string", Description)],
                [first |-> "Units",       second |-> AnyOf("string", Units)],
                [first |-> "StdName",     second |-> AnyOf("string", StdName)],
                [first |-> "ValidMin",    second |-> ValidMin],
                [first |-> "ValidMax",    second |-> ValidMax],
                [first |-> "FillValue",   second |-> FillValue] >>)

MetaData_create(Name) ==
    LET r == createEmpty(Name) IN
    /\ Called("MetaData::create", NULL, Name, 0, NoValue)
    /\ out' = NoOut
    /\ ret' = RetPtr(r.Data)
    /\ AllFields' = r.fields
    /\ fieldHeap' = r.heap
    /\ UNCHANGED <<heldField, heldMap, dimVars, groupVars>>

\* Faulty variant: the field is created only when every dimension name it
\* is given is a defined dimension.
MetaData_createFull_CheckDims(Name, Description, Units, StdName, ValidMin, ValidMax, FillValue, NumDims, Dimensions) ==
    LET r  == createEmpty(Name)
        Ok == \A i \in DOMAIN Dimensions : AllDims[Dimensions[i]] # Absent IN
    /\ Called("MetaData::create(full)", NULL, Name, NumDims, FillValue)
    /\ out' = NoOut
    /\ ret' = IF Ok THEN RetPtr(r.Data) ELSE RetPtr(NULL)
    /\ AllFields' = IF Ok THEN r.fields ELSE AllFields
    /\ fieldHeap' = IF Ok /\ r.Data # NULL
                    THEN [r.heap EXCEPT ![r.Data] =
                            fillFull(@, Description, Units, StdName, ValidMin,
                                     ValidMax, FillValue, NumDims, Dimensions)]
                    ELSE IF Ok THEN r.heap ELSE fieldHeap
    /\ UNCHANGED <<heldField, heldMap, dimVars, groupVars>>

MetaData_createFull(Name, Description, Units, StdName, ValidMin, ValidMax, FillValue, NumDims, Dimensions) ==
    LET r == createEmpty(Name) IN
    /\ Called("MetaData::create(full)", NULL, Name, NumDims, FillValue)
    /\ out' = NoOut
    /\ ret' = RetPtr(r.Data)
    /\ AllFields' = r.fields
    /\ fieldHeap' = IF r.Data # NULL
                    THEN [r.heap EXCEPT ![r.Data] =
                            fillFull(@, Description, Units, StdName, ValidMin,
                                     ValidMax, FillValue, NumDims, Dimensions)]
                    ELSE r.heap
    /\ UNCHANGED <<heldField, heldMap, dimVars, groupVars>>

MetaData_createPairs(Name, MetaPairs) ==
    LET r == createEmpty(Name) IN
    /\ Called("MetaData::create(pairs)", NULL, Name, Len(MetaPairs), NoValue)
    /\ out' = NoOut
    /\ ret' = RetPtr(r.Data)
    /\ AllFields' = r.fields
    /\ fieldHeap' = IF r.Data # NULL
                    THEN [r.heap EXCEPT ![r.Data] =
                            addPairs([@ EXCEPT !.NDims = 0], MetaPairs)]
                    ELSE r.heap
    /\ UNCHANGED <<heldField, heldMap, dimVars, groupVars>>

\* Faulty variant: destroy erases every record of the map.
MetaData_destroy_All(Name) ==
    LET fields == [n \in DOMAIN AllFields |-> Absent] IN
    /\ Called("MetaData::destroy", NULL, Name, 0, NoValue)
    /\ out' = NoOut
    /\ IF AllFields[Name] = Absent
       THEN /\ ret' = RetStatus(-1)
            /\ UNCHANGED <<AllFields, fieldHeap>>
       ELSE /\ AllFields' = fields
            /\ fieldHeap' = FieldHeapAfter(fields, heldField, fieldHeap)
            /\ ret' = RetStatus(0)
    /\ heldMap' = MapPtrAfter(AllFields', heldField)
    /\ UNCHANGED <<heldField, dimVars, groupVars>>

\* Faulty variant: destroy also takes the name out of every group.
MetaData_destroy_Unlink(Name) ==
    /\ Called("MetaData::destroy", NULL, Name, 0, NoValue)
    /\ out' = NoOut
    /\ IF AllFields[Name] = Absent
       THEN /\ ret' = RetStatus(-1)
            /\ UNCHANGED <<AllFields, fieldHeap, groupHeap>>
       ELSE LET fields == [AllFields EXCEPT ![Name] = Absent] IN
            /\ AllFields' = fields
            /\ fieldHeap' = FieldHeapAfter(fields, heldField, fieldHeap)
            /\ groupHeap' = [i \in DOMAIN groupHeap |->
                                [groupHeap[i] EXCEPT !.Fields = @ \ {Name}]]
            /\ ret' = RetStatus(0)
    /\ heldMap' = MapPtrAfter(AllFields', heldField)
    /\ UNCHANGED <<heldField, dimVars, AllGroups, heldGroup, heldList>>

MetaData_destroy(Name) ==
    /\ Called("MetaData::destroy", NULL, Name, 0, NoValue)
    /\ out' = NoOut
    /\ IF ~MetaDataHas(Name)
       THEN /\ ret' = RetStatus(-1)
            /\ UNCHANGED <<AllFields, fieldHeap>>
       ELSE LET fields == [AllFields EXCEPT ![Name] = Absent] IN
            /\ AllFields' = fields
            /\ fieldHeap' = FieldHeapAfter(fields, heldField, fieldHeap)
            /\ ret' = RetStatus(0)
    /\ heldMap' = MapPtrAfter(AllFields', heldField)
    /\ UNCHANGED <<heldField, dimVars, groupVars>>

\* Faulty variant: clearing the fields also empties the member sets of the groups.
MetaData_clear_Cascade ==
    LET fields == [n \in FieldNameSet |-> Absent] IN
    /\ Called("MetaData::clear", NULL, "", 0, NoValue)
    /\ out' = NoOut
    /\ ret' = RetVoid
    /\ AllFields' = fields
    /\ fieldHeap' = FieldHeapAfter(fields, heldField, fieldHeap)
    /\ groupHeap' = [i \in DOMAIN groupHeap |-> [groupHeap[i] EXCEPT !.Fields = {}]]
    /\ heldMap' = MapPtrAfter(AllFields', heldField)
    /\ UNCHANGED <<heldField, dimVars, AllGroups, heldGroup, heldList>>

MetaData_clear ==
    LET fields == [n \in FieldNameSet |-> Absent] IN
    /\ Called("MetaData::clear", NULL, "", 0, NoValue)
    /\ out' = NoOut
    /\ ret' = RetVoid
    /\ AllFields' = fields
    /\ fieldHeap' = FieldHeapAfter(fields, heldField, fieldHeap)
    /\ heldMap' = MapPtrAfter(AllFields', heldField)
    /\ UNCHANGED <<heldField, dimVars, groupVars>>

\* Faulty variant: the map is read with operator[] without the has() check,
\* which inserts a null pointer under a name that is not in the map.
MetaData_get_Inserting(Name) ==
    /\ Called("MetaData::get", NULL, Name, 0, NoValue)
    /\ out' = NoOut
    /\ ret' = RetPtr(IF AllFields[Name] = Absent THEN NULL ELSE AllFields[Name])
    /\ AllFields' = [AllFields EXCEPT ![Name] = IF @ = Absent THEN NULL ELSE @]
    /\ UNCHANGED <<fieldHeap, heldField, heldMap, dimVars, groupVars>>

MetaData_get(Name) ==
    /\ Called("MetaData::get", NULL, Name, 0, NoValue)
    /\ out' = NoOut
    /\ ret' = RetPtr(MetaDataGet(Name))
    /\ UNCHANGED <<fieldVars, dimVars, groupVars>>

MetaData_has(Name) ==
    /\ Called("MetaData::has", NULL, Name, 0, NoValue)
    /\ out' = NoOut
    /\ ret' = RetBool(MetaDataHas(Name))
    /\ UNCHANGED <<fieldVars, dimVars, groupVars>>

\* The member functions are called through a pointer h the caller has: one
\* the registry still holds or one the caller kept.
MetaData_hasEntry(h, Name) ==
    /\ FieldInUse(h)
    /\ Called("MetaData::hasEntry", h, Name, 0, NoValue)
    /\ out' = NoOut
    /\ ret' = RetBool(hasEntry(fieldHeap[h], Name))
    /\ UNCHANGED <<fieldVars, dimVars, groupVars>>

MetaData_addEntry(h, Name, Value) ==
    LET r == addEntry(fieldHeap[h], Name, Value) IN
    /\ FieldInUse(h)
    /\ Called("MetaData::addEntry", h, Name, 0, Value)
    /\ out' = NoOut
    /\ ret' = RetStatus(r.RetVal)
    /\ fieldHeap' = [fieldHeap EXCEPT ![h] = r.Data]
    /\ UNCHANGED <<AllFields, heldField, heldMap, dimVars, groupVars>>

MetaData_removeEntry(h, Name) ==
    LET r == removeEntry(fieldHeap[h], Name) IN
    /\ FieldInUse(h)
    /\ Called("MetaData::removeEntry", h, Name, 0, NoValue)
    /\ out' = NoOut
    /\ ret' = RetStatus(r.RetVal)
    /\ fieldHeap' = [fieldHeap EXCEPT ![h] = r.Data]
    /\ UNCHANGED <<AllFields, heldField, heldMap, dimVars, groupVars>>

\* The six getEntry overloads differ only in the type Kind of Value.
MetaData_getEntry(h, Name, Kind) ==
    /\ FieldInUse(h)
    /\ Called("MetaData::getEntry", h, Name, 0, AnyOf(Kind, 0))
    /\ IF ~hasEntry(fieldHeap[h], Name)
       THEN ret' = RetStatus(-1) /\ out' = NoOut
       ELSE IF AnyCastOk(fieldHeap[h].MetaMap[Name], Kind)
            THEN /\ ret' = RetStatus(0)
                 /\ out' = [NoOut EXCEPT !.Value = fieldHeap[h].MetaMap[Name]]
            ELSE ret' = RetThrow /\ out' = NoOut
    /\ UNCHANGED <<fieldVars, dimVars, groupVars>>

MetaData_getNumDims(h) ==
    /\ FieldInUse(h)
    /\ Called("MetaData::getNumDims", h, "", 0, NoValue)
    /\ out' = NoOut
    /\ ret' = RetInt(fieldHeap[h].NDims)
    /\ UNCHANGED <<fieldVars, dimVars, groupVars>>

\* Dimensions.resize(N): the first N elements, padded with empty strings.
resize(Dimensions, N) ==
    [i \in 1..N |-> IF i <= Len(Dimensions) THEN Dimensions[i] ELSE ""]

\* What DimNames[IDim] may yield for an index past the end of DimNames: the
\* read is out of bounds, so any string may come back (or none at all, see
\* RetCrash in MetaData_getDimNames).
OutOfRange == {"", "?"}

\* The values the vector Dimensions may have when getDimNames returns.
getDimNames(Data, Dimensions) ==
    IF Data.NDims > 0
    THEN LET Resized == resize(Dimensions, Data.NDims) IN
         {d \in [DOMAIN Resized -> DimNameSet \cup OutOfRange] :
             \A IDim \in 1..Data.NDims :
                IF IDim <= Len(Data.DimNames) THEN d[IDim] = Data.DimNames[IDim]
                                              ELSE d[IDim] \in OutOfRange}
    ELSE {<<>>}

\* Dimensions is the vector of the caller as it is before the call.
MetaData_getDimNames(h, Dimensions) ==
    /\ FieldInUse(h)
    /\ Called("MetaData::getDimNames", h, "", Len(Dimensions), NoValue)
    /\ \/ /\ ret' = RetStatus(0)
          /\ \E d \in getDimNames(fieldHeap[h], Dimensions) :
                out' = [NoOut EXCEPT !.Dimensions = d]
       \/ /\ fieldHeap[h].NDims > Len(fieldHeap[h].DimNames)
          /\ ret' = RetCrash
          /\ out' = NoOut
    /\ UNCHANGED <<fieldVars, dimVars, groupVars>>

\* auto Data = MetaData::get(Name), kept by the caller; and dropping it.
HoldField(Name) ==
    /\ MetaDataHas(Name)
    /\ heldField # AllFields[Name]
    /\ Called("hold field", AllFields[Name], Name, 0, NoValue)
    /\ out' = NoOut
    /\ ret' = RetPtr(AllFields[Name])
    /\ heldField' = AllFields[Name]
    /\ heldMap' = MapPtrAfter(AllFields, AllFields[Name])
    /\ fieldHeap' = FieldHeapAfter(AllFields, AllFields[Name], fieldHeap)
    /\ UNCHANGED <<AllFields, dimVars, groupVars>>

ReleaseField ==
    /\ heldField # NULL
    /\ Called("release field", heldField, "", 0, NoValue)
    /\ out' = NoOut
    /\ ret' = RetVoid
    /\ heldField' = NULL
    /\ heldMap' = MapPtrAfter(AllFields, NULL)
    /\ fieldHeap' = FieldHeapAfter(AllFields, NULL, fieldHeap)
    /\ UNCHANGED <<AllFields, dimVars, groupVars>>

\* std::map<std::string, std::any> *VarMeta = Data->getAllEntries(), kept by
\* the caller: the address of the MetaMap member of the record.
MetaData_getAllEntries(h) ==
    /\ FieldInUse(h)
    /\ Called("MetaData::getAllEntries", h, "", 0, NoValue)
    /\ out' = NoOut
    /\ ret' = RetPtr(h)
    /\ heldMap' = h
    /\ UNCHANGED <<AllFields, fieldHeap, heldField, dimVars, groupVars>>

\* for (const auto &Pair : *VarMeta): the pairs of a std::map in the order
\* of its keys, EntryNameSeq being the keys in that order.
RECURSIVE walkMap(_, _)
walkMap(MetaMap, It) ==
    IF It > Len(EntryNameSeq) THEN <<>>
    ELSE LET Name == EntryNameSeq[It] IN
         (IF MetaMap[Name] # NoValue
          THEN <<[first |-> Name, second |-> MetaMap[Name]]>> ELSE <<>>)
            \o walkMap(MetaMap, It + 1)

\* What a loop over a map that has been freed may find.
DanglingWalks == {<<>>, <<[first |-> "?", second |-> NoValue]>>}

\* The loop over *VarMeta.  Through a pointer to a freed record it is a read
\* of freed memory: it may end the process or find anything.
MapWalk ==
    /\ heldMap # NULL
    /\ Called("VarMeta walk", heldMap, "", 0, NoValue)
    /\ IF heldMap # Dangling
       THEN /\ ret' = RetVoid
            /\ out' = [NoOut EXCEPT !.Entries = walkMap(fieldHeap[heldMap].MetaMap, 1)]
       ELSE \/ ret' = RetCrash /\ out' = NoOut
            \/ /\ ret' = RetVoid
               /\ \E w \in DanglingWalks : out' = [NoOut EXCEPT !.Entries = w]
    /\ UNCHANGED <<dimVars, fieldVars, groupVars>>

\* Faulty variant: the insert lands in a copy of the map, not in the record.
MapInsert_Copy(Name, Value) ==
    /\ heldMap # NULL
    /\ Called("VarMeta->insert", heldMap, Name, 0, Value)
    /\ out' = NoOut
    /\ ret' = IF heldMap = Dangling THEN RetCrash
              ELSE RetBool(fieldHeap[heldMap].MetaMap[Name] = NoValue)
    /\ UNCHANGED <<dimVars, fieldVars, groupVars>>

\* VarMeta->insert({Name, Value}): a std::map insert, which keeps the value
\* of a key that is present and returns whether it inserted.  Through a
\* pointer to a freed record it is a write to freed memory: it may end the
\* process or seem to work, and no live record is the map it wrote to.
MapInsert(Name, Value) ==
    /\ heldMap # NULL
    /\ Called("VarMeta->insert", heldMap, Name, 0, Value)
    /\ out' = NoOut
    /\ IF heldMap # Dangling
       THEN /\ ret' = RetBool(fieldHeap[heldMap].MetaMap[Name] = NoValue)
            /\ fieldHeap' = [fieldHeap EXCEPT ![heldMap].MetaMap[Name] =
                                IF @ = NoValue THEN Value ELSE @]
       ELSE /\ ret' \in {RetCrash, RetBool(TRUE), RetBool(FALSE)}
            /\ UNCHANGED fieldHeap
    /\ UNCHANGED <<AllFields, heldField, heldMap, dimVars, groupVars>>

\* VarMeta->erase(Name): the number of elements erased.
MapErase(Name) ==
    /\ heldMap # NULL
    /\ Called("VarMeta->erase", heldMap, Name, 0, NoValue)
    /\ out' = NoOut
    /\ IF heldMap # Dangling
       THEN /\ ret' = RetInt(IF fieldHeap[heldMap].MetaMap[Name] = NoValue THEN 0 ELSE 1)
            /\ fieldHeap' = [fieldHeap EXCEPT ![heldMap].MetaMap[Name] = NoValue]
       ELSE /\ ret' \in {RetCrash, RetInt(0), RetInt(1)}
            /\ UNCHANGED fieldHeap
    /\ UNCHANGED <<AllFields, heldField, heldMap, dimVars, groupVars>>

(***************************************************************************)
(* MetaGroup                                                               *)
(***************************************************************************)
GroupIds == 1..(Cardinality(GroupNameSet) + 2)

\* What std::make_shared<MetaGroup>() constructs.
FreeGroup == [GrpName |-> "", Fields |-> {}]

GroupInUse(i) == heldGroup = i \/ \E n \in GroupNameSet : AllGroups[n] = i

NewGroup == CHOOSE i \in GroupIds :
               /\ ~GroupInUse(i)
               /\ \A j \in GroupIds : ~GroupInUse(j) => i <= j

GroupHeapAfter(groups, held, heap) ==
    [i \in GroupIds |-> IF held = i \/ \E n \in GroupNameSet : groups[n] = i
                        THEN heap[i] ELSE FreeGroup]

MetaGroupHas(Name) == AllGroups[Name] # Absent

\* Faulty variant: any registered group is handed back for a defined name.
MetaGroupGet_AnyGroup(Name) ==
    IF AllGroups[Name] = Absent THEN NULL
    ELSE CHOOSE g \in GroupIds : \E n \in GroupNameSet : AllGroups[n] = g

MetaGroupGet(Name) == IF ~MetaGroupHas(Name) THEN NULL ELSE AllGroups[Name]

hasField(Group, FieldName) == FieldName \in Group.Fields

\* Faulty variant: a name with no field record is not inserted.
addField_Transactional(Group, FieldName) ==
    IF ~MetaDataHas(FieldName)
    THEN [Group |-> Group, RetVal |-> -2]
    ELSE [Group |-> [Group EXCEPT !.Fields = @ \cup {FieldName}], RetVal |-> 0]

\* Faulty variant: a name that is a member already is refused.
addField_RejectMember(Group, FieldName) ==
    IF FieldName \in Group.Fields
    THEN [Group |-> Group, RetVal |-> -1]
    ELSE [Group  |-> [Group EXCEPT !.Fields = @ \cup {FieldName}],
          RetVal |-> IF AllFields[FieldName] = Absent THEN -2 ELSE 0]

addField(Group, FieldName) ==
    [Group  |-> [Group EXCEPT !.Fields = @ \cup {FieldName}],
     RetVal |-> IF ~MetaDataHas(FieldName) THEN -2 ELSE 0]

\* Faulty variant: the record is looked up without the membership check.
getField_IgnoreMembership(Group, FieldName) == MetaDataGet(FieldName)

\* Faulty variant: a record of that name that is still alive in the hands
\* of a caller is returned in place of the one the map holds now.
getField_Stale(Group, FieldName) ==
    IF FieldName \notin Group.Fields THEN NULL
    ELSE IF heldField # NULL /\ fieldHeap[heldField].FieldName = FieldName
         THEN heldField
         ELSE MetaDataGet(FieldName)

getField(Group, FieldName) ==
    IF ~hasField(Group, FieldName) THEN NULL ELSE MetaDataGet(FieldName)

\* Faulty variant: a member is removed only while its field record exists.
removeField_NeedsRecord(Group, FieldName) ==
    IF FieldName \notin Group.Fields \/ AllFields[FieldName] = Absent
    THEN [Group |-> Group, RetVal |-> -1]
    ELSE [Group |-> [Group EXCEPT !.Fields = @ \ {FieldName}], RetVal |-> 0]

removeField(Group, FieldName) ==
    IF ~hasField(Group, FieldName)
    THEN [Group |-> Group, RetVal |-> -1]
    ELSE [Group |-> [Group EXCEPT !.Fields = @ \ {FieldName}], RetVal |-> 0]

\* Faulty variant: only the members that have a field record are listed.
getFieldList_DefinedOnly(Group) ==
    {f \in FieldNameSet : f \in Group.Fields /\ AllFields[f] # Absent}

\* The loop of getFieldList: one insert into List per element of Fields.
getFieldList(Group) == {f \in FieldNameSet : f \in Group.Fields}

\* Faulty variant: a create on a taken name empties the members of the group.
MetaGroup_create_ResetExisting(Name) ==
    /\ Called("MetaGroup::create", NULL, Name, 0, NoValue)
    /\ out' = NoOut
    /\ IF AllGroups[Name] # Absent
       THEN /\ ret' = RetPtr(NULL)
            /\ groupHeap' = [groupHeap EXCEPT ![AllGroups[Name]].Fields = {}]
            /\ UNCHANGED AllGroups
       ELSE LET Group == NewGroup IN
            /\ groupHeap' = [groupHeap EXCEPT ![Group] = [FreeGroup EXCEPT !.GrpName = Name]]
            /\ AllGroups' = [AllGroups EXCEPT ![Name] = Group]
            /\ ret' = RetPtr(Group)
    /\ UNCHANGED <<heldGroup, heldList, dimVars, fieldVars>>

MetaGroup_create(Name) ==
    /\ Called("MetaGroup::create", NULL, Name, 0, NoValue)
    /\ out' = NoOut
    /\ IF MetaGroupHas(Name)
       THEN /\ ret' = RetPtr(NULL)
            /\ UNCHANGED <<AllGroups, groupHeap>>
       ELSE LET Group == NewGroup IN
            /\ groupHeap' = [groupHeap EXCEPT ![Group] = [FreeGroup EXCEPT !.GrpName = Name]]
            /\ AllGroups' = [AllGroups EXCEPT ![Name] = Group]
            /\ ret' = RetPtr(Group)
    /\ UNCHANGED <<heldGroup, heldList, dimVars, fieldVars>>

\* Faulty variant: destroy empties the whole map.
MetaGroup_destroy_All(Name) ==
    LET groups == [n \in GroupNameSet |-> Absent] IN
    /\ Called("MetaGroup::destroy", NULL, Name, 0, NoValue)
    /\ out' = NoOut
    /\ IF ~MetaGroupHas(Name)
       THEN /\ ret' = RetStatus(-1)
            /\ UNCHANGED <<AllGroups, groupHeap>>
       ELSE /\ AllGroups' = groups
            /\ groupHeap' = GroupHeapAfter(groups, heldGroup, groupHeap)
            /\ ret' = RetStatus(0)
    /\ UNCHANGED <<heldGroup, heldList, dimVars, fieldVars>>

MetaGroup_destroy(Name) ==
    /\ Called("MetaGroup::destroy", NULL, Name, 0, NoValue)
    /\ out' = NoOut
    /\ IF ~MetaGroupHas(Name)
       THEN /\ ret' = RetStatus(-1)
            /\ UNCHANGED <<AllGroups, groupHeap>>
       ELSE LET groups == [AllGroups EXCEPT ![Name] = Absent] IN
            /\ AllGroups' = groups
            /\ groupHeap' = GroupHeapAfter(groups, heldGroup, groupHeap)
            /\ ret' = RetStatus(0)
    /\ UNCHANGED <<heldGroup, heldList, dimVars, fieldVars>>

MetaGroup_get(Name) ==
    /\ Called("MetaGroup::get", NULL, Name, 0, NoValue)
    /\ out' = NoOut
    /\ ret' = RetPtr(MetaGroupGet(Name))
    /\ UNCHANGED <<groupVars, dimVars, fieldVars>>

MetaGroup_has(Name) ==
    /\ Called("MetaGroup::has", NULL, Name, 0, NoValue)
    /\ out' = NoOut
    /\ ret' = RetBool(MetaGroupHas(Name))
    /\ UNCHANGED <<groupVars, dimVars, fieldVars>>

MetaGroup_hasField(g, FieldName) ==
    /\ GroupInUse(g)
    /\ Called("MetaGroup::hasField", g, FieldName, 0, NoValue)
    /\ out' = NoOut
    /\ ret' = RetBool(hasField(groupHeap[g], FieldName))
    /\ UNCHANGED <<groupVars, dimVars, fieldVars>>

\* Faulty variant: a name added to one group is taken out of the others.
MetaGroup_addField_Exclusive(g, FieldName) ==
    LET r == addField(groupHeap[g], FieldName) IN
    /\ GroupInUse(g)
    /\ Called("MetaGroup::addField", g, FieldName, 0, NoValue)
    /\ out' = NoOut
    /\ ret' = RetStatus(r.RetVal)
    /\ groupHeap' = [i \in DOMAIN groupHeap |->
                        IF i = g THEN r.Group
                        ELSE [groupHeap[i] EXCEPT !.Fields = @ \ {FieldName}]]
    /\ UNCHANGED <<AllGroups, heldGroup, heldList, dimVars, fieldVars>>

MetaGroup_addField(g, FieldName) ==
    LET r == addField(groupHeap[g], FieldName) IN
    /\ GroupInUse(g)
    /\ Called("MetaGroup::addField", g, FieldName, 0, NoValue)
    /\ out' = NoOut
    /\ ret' = RetStatus(r.RetVal)
    /\ groupHeap' = [groupHeap EXCEPT ![g] = r.Group]
    /\ UNCHANGED <<AllGroups, heldGroup, heldList, dimVars, fieldVars>>

MetaGroup_getField(g, FieldName) ==
    /\ GroupInUse(g)
    /\ Called("MetaGroup::getField", g, FieldName, 0, NoValue)
    /\ out' = NoOut
    /\ ret' = RetPtr(getField(groupHeap[g], FieldName))
    /\ UNCHANGED <<groupVars, dimVars, fieldVars>>

MetaGroup_removeField(g, FieldName) ==
    LET r == removeField(groupHeap[g], FieldName) IN
    /\ GroupInUse(g)
    /\ Called("MetaGroup::removeField", g, FieldName, 0, NoValue)
    /\ out' = NoOut
    /\ ret' = RetStatus(r.RetVal)
    /\ groupHeap' = [groupHeap EXCEPT ![g] = r.Group]
    /\ UNCHANGED <<AllGroups, heldGroup, heldList, dimVars, fieldVars>>

MetaGroup_getFieldList(g) ==
    /\ GroupInUse(g)
    /\ Called("MetaGroup::getFieldList", g, "", 0, NoValue)
    /\ out' = [NoOut EXCEPT !.List = getFieldList(groupHeap[g])]
    /\ ret' = RetVoid
    /\ UNCHANGED <<groupVars, dimVars, fieldVars>>

\* std::set<std::string> List = Group->getFieldList(), kept by the caller,
\* and the caller's own inserts into and erases from List.
\* A caller keeps the shared_ptr that get(Name) returns, and lets go of the
\* one it kept before.
HoldGroup(Name) ==
    /\ MetaGroupHas(Name)
    /\ heldGroup # AllGroups[Name]
    /\ Called("hold group", AllGroups[Name], Name, 0, NoValue)
    /\ out' = NoOut
    /\ ret' = RetPtr(AllGroups[Name])
    /\ heldGroup' = AllGroups[Name]
    /\ groupHeap' = GroupHeapAfter(AllGroups, AllGroups[Name], groupHeap)
    /\ UNCHANGED <<AllGroups, heldList, dimVars, fieldVars>>

ReleaseGroup ==
    /\ heldGroup # NULL
    /\ Called("release group", heldGroup, "", 0, NoValue)
    /\ out' = NoOut
    /\ ret' = RetVoid
    /\ heldGroup' = NULL
    /\ groupHeap' = GroupHeapAfter(AllGroups, NULL, groupHeap)
    /\ UNCHANGED <<AllGroups, heldList, dimVars, fieldVars>>

HoldFieldList(g) ==
    /\ GroupInUse(g)
    /\ Called("MetaGroup::getFieldList", g, "", 0, NoValue)
    /\ out' = [NoOut EXCEPT !.List = getFieldList(groupHeap[g])]
    /\ ret' = RetVoid
    /\ heldList' = getFieldList(groupHeap[g])
    /\ UNCHANGED <<AllGroups, groupHeap, heldGroup, dimVars, fieldVars>>

ListInsert(FieldName) ==
    /\ Called("List.insert", NULL, FieldName, 0, NoValue)
    /\ out' = NoOut
    /\ ret' = RetVoid
    /\ heldList' = heldList \cup {FieldName}
    /\ UNCHANGED <<AllGroups, groupHeap, heldGroup, dimVars, fieldVars>>

ListErase(FieldName) ==
    /\ Called("List.erase", NULL, FieldName, 0, NoValue)
    /\ out' = NoOut
    /\ ret' = RetVoid
    /\ heldList' = heldList \ {FieldName}
    /\ UNCHANGED <<AllGroups, groupHeap, heldGroup, dimVars, fieldVars>>

(***************************************************************************)
(* The program starts with three empty maps.                               *)
(***************************************************************************)
Init ==
    /\ AllDims = [n \in DimNameSet |-> Absent]
    /\ dimHeap = [i \in DimIds |-> FreeDim]
    /\ AllFields = [n \in FieldNameSet |-> Absent]
    /\ fieldHeap = [i \in FieldIds |-> FreeField]
    /\ AllGroups = [n \in GroupNameSet |-> Absent]
    /\ groupHeap = [i \in GroupIds |-> FreeGroup]
    /\ heldDim = NULL
    /\ heldField = NULL
    /\ heldMap = NULL
    /\ heldGroup = NULL
    /\ heldList = {}
    /\ op = Op("init", NULL, "", 0, NoValue)
    /\ rep = 1
    /\ ret = RetVoid
    /\ out = NoOut

(***************************************************************************)
(* The dimension registry on its own.                                      *)
(***************************************************************************)
NextDim ==
    \/ \E Name \in DimNameSet, Length \in Lengths : MetaDim_create(Name, Length)
    \/ \E Name \in DimNameSet : MetaDim_destroy(Name)
    \/ MetaDim_clear
    \/ \E Name \in DimNameSet : MetaDim_has(Name)
    \/ \E Name \in DimNameSet : MetaDim_get(Name)
    \/ \E Name \in DimNameSet : MetaDim_getLength(Name)
    \/ \E Name \in DimNameSet : MetaDim_getDimLength(Name)
    \/ MetaDim_getNumDefinedDims
    \/ MetaDim_walk

SpecDim == Init /\ [][NextDim]_vars

(***************************************************************************)
(* The dimension registry and a caller that keeps a dimension pointer.     *)
(***************************************************************************)
NextDimHeld ==
    \/ \E Name \in {"D1", "D2"}, Length \in {0, MaxLength} : MetaDim_create(Name, Length)
    \/ \E Name \in {"D1", "D2"} : MetaDim_destroy(Name)
    \/ MetaDim_clear
    \/ \E Name \in {"D1", "D2"} : MetaDim_getDimLength(Name)
    \/ \E Name \in {"D1", "D2"} : HoldDim(Name)
    \/ ReleaseDim
    \/ HeldDim_getLength

SpecDimHeld == Init /\ [][NextDimHeld]_vars

(***************************************************************************)
(* The entries of one field record: every kind of value.                   *)
(***************************************************************************)
ValueSet == {AnyOf(k, x) : k \in Kinds, x \in 1..MaxVal}
EntryInputs == {"E1", "E2"}

NextEntry ==
    \/ MetaData_create("F1")
    \/ MetaData_destroy("F1")
    \/ \E h \in FieldIds, Name \in EntryInputs : MetaData_hasEntry(h, Name)
    \/ \E h \in FieldIds, Name \in EntryInputs, Value \in ValueSet :
          MetaData_addEntry(h, Name, Value)
    \/ \E h \in FieldIds, Name \in EntryInputs : MetaData_removeEntry(h, Name)
    \/ \E h \in FieldIds, Name \in EntryInputs, Kind \in Kinds :
          MetaData_getEntry(h, Name, Kind)

SpecEntry == Init /\ [][NextEntry]_vars

(***************************************************************************)
(* The field registry: the three forms of create, destroy and clear.       *)
(***************************************************************************)
FewValues == {AnyOf("I4", 1), AnyOf("R8", 2)}
DimSeqs == {<<>>, <<"D1">>, <<"D2", "D1">>}
PairSet == {[first |-> "E1", second |-> AnyOf("I4", 1)],
            [first |-> "E1", second |-> AnyOf("R8", 2)],
            [first |-> "E2", second |-> AnyOf("bool", 1)]}
PairLists == UNION {[1..n -> PairSet] : n \in 0..MaxPairs}

NextField ==
    \/ \E Name \in FieldNameSet : MetaData_create(Name)
    \/ \E Name \in FieldNameSet, FillValue \in FewValues,
          NumDims \in 0..MaxNumDims, Dimensions \in DimSeqs :
          MetaData_createFull(Name, 1, 2, 1, AnyOf("R8", 1), AnyOf("R8", 2),
                              FillValue, NumDims, Dimensions)
    \/ \E Name \in FieldNameSet, MetaPairs \in PairLists :
          MetaData_createPairs(Name, MetaPairs)
    \/ \E Name \in FieldNameSet : MetaData_destroy(Name)
    \/ MetaData_clear
    \/ \E Name \in FieldNameSet : MetaData_get(Name)
    \/ \E Name \in FieldNameSet : MetaData_has(Name)
    \/ \E h \in FieldIds : MetaData_getNumDims(h)

SpecField == Init /\ [][NextField]_vars

(***************************************************************************)
(* The group registry, over a field registry of empty records.             *)
(***************************************************************************)
NextGroup ==
    \/ \E Name \in GroupNameSet : MetaGroup_create(Name)
    \/ \E Name \in GroupNameSet : MetaGroup_destroy(Name)
    \/ \E Name \in GroupNameSet : MetaGroup_get(Name)
    \/ \E Name \in GroupNameSet : MetaGroup_has(Name)
    \/ \E g \in GroupIds, FieldName \in FieldNameSet : MetaGroup_hasField(g, FieldName)
    \/ \E g \in GroupIds, FieldName \in FieldNameSet : MetaGroup_addField(g, FieldName)
    \/ \E g \in GroupIds, FieldName \in FieldNameSet : MetaGroup_getField(g, FieldName)
    \/ \E g \in GroupIds, FieldName \in FieldNameSet : MetaGroup_removeField(g, FieldName)
    \/ \E g \in GroupIds : MetaGroup_getFieldList(g)
    \/ \E Name \in FieldNameSet : MetaData_create(Name)
    \/ \E Name \in FieldNameSet : MetaData_destroy(Name)
    \/ MetaData_clear
    \/ \E Name \in FieldNameSet : HoldField(Name)
    \/ ReleaseField

SpecGroup == Init /\ [][NextGroup]_vars

(***************************************************************************)
(* The pair-list form of create, with lists long enough for a pair to      *)
(* follow a repeated name.                                                 *)
(***************************************************************************)
BatchLists == UNION {[1..n -> PairSet] : n \in 0..MaxBatch}
BatchKinds == {p.second.kind : p \in PairSet}

NextPairs ==
    \/ \E Name \in FieldNameSet, MetaPairs \in BatchLists :
          MetaData_createPairs(Name, MetaPairs)
    \/ \E Name \in FieldNameSet : MetaData_destroy(Name)
    \/ \E h \in FieldIds, Name \in EntryInputs : MetaData_hasEntry(h, Name)
    \/ \E h \in FieldIds, Name \in EntryInputs : MetaData_removeEntry(h, Name)
    \/ \E h \in FieldIds, Name \in EntryInputs, Kind \in BatchKinds :
          MetaData_getEntry(h, Name, Kind)
    \/ \E h \in FieldIds : MetaData_getNumDims(h)

SpecPairs == Init /\ [][NextPairs]_vars

(***************************************************************************)
(* The dimension names of field records: any NumDims with any Dimensions.  *)
(***************************************************************************)
DimsBefore == {<<>>, <<"D3", "D3", "D3">>}

NextDimNames ==
    \/ \E Name \in FieldNameSet : MetaData_create(Name)
    \/ \E Name \in FieldNameSet, FillValue \in FewValues,
          NumDims \in (-1)..MaxNumDims, Dimensions \in DimSeqs :
          MetaData_createFull(Name, 1, 2, 1, AnyOf("R8", 1), AnyOf("R8", 2),
                              FillValue, NumDims, Dimensions)
    \/ \E Name \in FieldNameSet : MetaData_destroy(Name)
    \/ \E h \in FieldIds : MetaData_getNumDims(h)
    \/ \E h \in FieldIds, Dimensions \in DimsBefore : MetaData_getDimNames(h, Dimensions)

SpecDimNames == Init /\ [][NextDimNames]_vars

(***************************************************************************)
(* A list of members in the hands of a caller.                             *)
(***************************************************************************)
NextList ==
    \/ \E Name \in GroupNameSet : MetaGroup_create(Name)
    \/ \E Name \in GroupNameSet : MetaGroup_destroy(Name)
    \/ \E g \in GroupIds, FieldName \in FieldNameSet : MetaGroup_addField(g, FieldName)
    \/ \E g \in GroupIds, FieldName \in FieldNameSet : MetaGroup_removeField(g, FieldName)
    \/ \E g \in GroupIds : MetaGroup_getFieldList(g)
    \/ \E g \in GroupIds : HoldFieldList(g)
    \/ \E FieldName \in FieldNameSet : ListInsert(FieldName)
    \/ \E FieldName \in FieldNameSet : ListErase(FieldName)
    \/ MetaData_create("F1")
    \/ MetaData_destroy("F1")

SpecList == Init /\ [][NextList]_vars

(***************************************************************************)
(* Creation and retrieval by name in the three registries.                 *)
(***************************************************************************)
NextGet ==
    \/ \E Name \in {"D1", "D2"}, Length \in {0, MaxLength} : MetaDim_create(Name, Length)
    \/ \E Name \in {"D1", "D2"} : MetaDim_destroy(Name)
    \/ MetaDim_clear
    \/ \E Name \in {"D1", "D2"} : MetaDim_get(Name)
    \/ \E Name \in FieldNameSet : MetaData_create(Name)
    \/ MetaData_createFull("F1", 1, 2, 1, AnyOf("R8", 1), AnyOf("R8", 2),
                           AnyOf("R8", 1), 1, <<"D1">>)
    \/ MetaData_createPairs("F2", <<[first |-> "E1", second |-> AnyOf("I4", 1)]>>)
    \/ \E Name \in FieldNameSet : MetaData_destroy(Name)
    \/ MetaData_clear
    \/ \E Name \in FieldNameSet : MetaData_get(Name)
    \/ \E Name \in GroupNameSet : MetaGroup_create(Name)
    \/ \E Name \in GroupNameSet : MetaGroup_destroy(Name)
    \/ \E Name \in GroupNameSet : MetaGroup_get(Name)

SpecGet == Init /\ [][NextGet]_vars

(***************************************************************************)
(* The queries of the three registries, on names and objects that are      *)
(* defined and on names that are not.                                      *)
(***************************************************************************)
NextQuery ==
    \/ MetaDim_create("D1", MaxLength)
    \/ MetaDim_destroy("D1")
    \/ \E Dimensions \in {<<>>, <<"D1">>} :
          MetaData_createFull("F1", 1, 2, 1, AnyOf("R8", 1), AnyOf("R8", 2),
                              AnyOf("R8", 1), 1, Dimensions)
    \/ MetaData_destroy("F1")
    \/ \E h \in FieldIds : MetaData_addEntry(h, "E1", AnyOf("I4", 1))
    \/ MetaGroup_create("G1")
    \/ MetaGroup_destroy("G1")
    \/ \E g \in GroupIds : MetaGroup_addField(g, "F1")
    \/ \E Name \in {"D1", "D2"} : MetaDim_has(Name)
    \/ \E Name \in {"D1", "D2"} : MetaDim_get(Name)
    \/ \E Name \in {"D1", "D2"} : MetaDim_getLength(Name)
    \/ \E Name \in {"D1", "D2"} : MetaDim_getDimLength(Name)
    \/ MetaDim_getNumDefinedDims
    \/ \E Name \in FieldNameSet : MetaData_has(Name)
    \/ \E Name \in FieldNameSet : MetaData_get(Name)
    \/ \E h \in FieldIds, Name \in EntryInputs : MetaData_hasEntry(h, Name)
    \/ \E h \in FieldIds, Name \in EntryInputs, Kind \in {"I4", "R8"} :
          MetaData_getEntry(h, Name, Kind)
    \/ \E h \in FieldIds : MetaData_getNumDims(h)
    \/ \E h \in FieldIds : MetaData_getDimNames(h, <<>>)
    \/ \E Name \in GroupNameSet : MetaGroup_has(Name)
    \/ \E Name \in GroupNameSet : MetaGroup_get(Name)
    \/ \E g \in GroupIds, FieldName \in FieldNameSet : MetaGroup_hasField(g, FieldName)
    \/ \E g \in GroupIds, FieldName \in FieldNameSet : MetaGroup_getField(g, FieldName)
    \/ \E g \in GroupIds : MetaGroup_getFieldList(g)

SpecQuery == Init /\ [][NextQuery]_vars

(***************************************************************************)
(* One record, its entries, and the map that getAllEntries points to.      *)
(***************************************************************************)
NextView ==
    \/ MetaData_create("F1")
    \/ MetaData_destroy("F1")
    \/ HoldField("F1")
    \/ ReleaseField
    \/ \E h \in FieldIds : MetaData_getAllEntries(h)
    \/ \E Name \in EntryInputs, Value \in FewValues : MapInsert(Name, Value)
    \/ \E Name \in EntryInputs : MapErase(Name)
    \/ MapWalk
    \/ \E h \in FieldIds, Name \in EntryInputs, Value \in FewValues :
          MetaData_addEntry(h, Name, Value)
    \/ \E h \in FieldIds, Name \in EntryInputs : MetaData_removeEntry(h, Name)
    \/ \E h \in FieldIds, Name \in EntryInputs : MetaData_hasEntry(h, Name)
    \/ \E h \in FieldIds, Name \in EntryInputs, Kind \in {"I4", "R8"} :
          MetaData_getEntry(h, Name, Kind)

SpecView == Init /\ [][NextView]_vars

(***************************************************************************)
(* Records and groups in the hands of a caller across destroy, clear and   *)
(* a new create of the same name.                                          *)
(***************************************************************************)
HeldPairLists == {<<[first |-> "E2", second |-> AnyOf("I4", MaxVal)]>>}

NextHeld ==
    \/ MetaData_create("F1")
    \/ MetaData_createFull("F1", 1, 2, 1, AnyOf("R8", 1), AnyOf("R8", 2),
                           AnyOf("R8", 1), 1, <<"D1">>)
    \/ \E MetaPairs \in HeldPairLists : MetaData_createPairs("F1", MetaPairs)
    \/ MetaData_destroy("F1")
    \/ MetaData_clear
    \/ MetaData_has("F1")
    \/ MetaData_get("F1")
    \/ HoldField("F1")
    \/ ReleaseField
    \/ \E h \in FieldIds : MetaData_addEntry(h, "E1", AnyOf("I4", 1))
    \/ \E h \in FieldIds : MetaData_removeEntry(h, "E1")
    \/ MetaGroup_create("G1")
    \/ MetaGroup_destroy("G1")
    \/ MetaGroup_has("G1")
    \/ MetaGroup_get("G1")
    \/ HoldGroup("G1")
    \/ ReleaseGroup
    \/ \E g \in GroupIds : MetaGroup_addField(g, "F1")
    \/ \E g \in GroupIds : MetaGroup_removeField(g, "F1")

SpecHeld == Init /\ [][NextHeld]_vars

(***************************************************************************)
(* A dimension, a record and a group in the hands of a caller while the    *)
(* registries destroy, clear and create again under the same names.        *)
(***************************************************************************)
NextDetached ==
    \/ MetaDim_create("D1", MaxLength)
    \/ MetaDim_destroy("D1")
    \/ MetaDim_clear
    \/ MetaDim_has("D1")
    \/ MetaDim_get("D1")
    \/ HoldDim("D1")
    \/ HeldDim_getLength
    \/ MetaData_create("F1")
    \/ MetaData_destroy("F1")
    \/ MetaData_clear
    \/ MetaData_has("F1")
    \/ MetaData_get("F1")
    \/ HoldField("F1")
    \/ \E h \in FieldIds : MetaData_addEntry(h, "E1", AnyOf("I4", 1))
    \/ \E h \in FieldIds : MetaData_removeEntry(h, "E1")
    \/ MetaGroup_create("G1")
    \/ MetaGroup_destroy("G1")
    \/ MetaGroup_has("G1")
    \/ MetaGroup_get("G1")
    \/ HoldGroup("G1")
    \/ \E g \in GroupIds : MetaGroup_addField(g, "F1")
    \/ \E g \in GroupIds : MetaGroup_removeField(g, "F1")

SpecDetached == Init /\ [][NextDetached]_vars

(***************************************************************************)
(* LayerThicknessAuxVars: the two fields an instance registers and         *)
(* unregisters.  Field::create and Field::destroy are the full-form create *)
(* and the destroy of the field registry; FieldGroup::addFieldToGroup and  *)
(* attachData work on stores of their own and change no registry.          *)
(***************************************************************************)
\* FluxLayerThickEdge.label() and MeanLayerThickEdge.label(): the base name
\* with the suffix of the instance.
FluxLayerThickEdge == "F1"
MeanLayerThickEdge == "F2"

\* DimNames as registerFields builds it for MeshName = "Default".
AuxDimNames == <<"NEdges", "NVertLevels">>

\* Field::create(Name, ...) on the map fields and the heap: the pointer
\* returned, nullptr for a name that is taken, and the map and heap after.
FieldCreate(fields, heap, Name, Description, NumDims, Dimensions) ==
    IF fields[Name] # Absent
    THEN [Field |-> NULL, fields |-> fields, heap |-> heap]
    ELSE LET used  == {heldField} \cup {fields[n] : n \in FieldNameSet}
             Data  == CHOOSE i \in FieldIds \ used : \A j \in FieldIds \ used : i <= j
             Fresh == [FreeField EXCEPT !.FieldName = Name] IN
         [Field  |-> Data,
          fields |-> [fields EXCEPT ![Name] = Data],
          heap   |-> [heap EXCEPT ![Data] =
                        fillFull(Fresh, Description, 1, 0, AnyOf("I4", 0), AnyOf("R8", MaxVal),
                                 AnyOf("R8", 1), NumDims, Dimensions)]]

\* Field::destroy(Name) on the map fields: the map after and the status.
FieldDestroy(fields, Name) ==
    IF fields[Name] = Absent
    THEN [fields |-> fields, Err |-> -1]
    ELSE [fields |-> [fields EXCEPT ![Name] = Absent], Err |-> 0]

\* registerFields: both creates, then the two addFieldToGroup and the two
\* attachData calls.  attachData is called through the pointer that create
\* returned without a test: through nullptr it is undefined behaviour, which
\* may end the process or seem to work.
LayerThicknessAuxVars_registerFields(AuxGroupName, MeshName) ==
    LET c1 == FieldCreate(AllFields, fieldHeap, FluxLayerThickEdge, 1, Len(AuxDimNames), AuxDimNames)
        c2 == FieldCreate(c1.fields, c1.heap, MeanLayerThickEdge, 2, Len(AuxDimNames), AuxDimNames) IN
    /\ MeshName = "Default"
    /\ Called("LayerThicknessAuxVars::registerFields", NULL, AuxGroupName, 0, NoValue)
    /\ out' = NoOut
    /\ AllFields' = c2.fields
    /\ fieldHeap' = c2.heap
    /\ IF c1.Field # NULL /\ c2.Field # NULL
       THEN ret' = RetVoid
       ELSE ret' \in {RetCrash, RetVoid}
    /\ UNCHANGED <<heldField, heldMap, dimVars, groupVars>>

\* Faulty variant: unregisterFields returns at the first destroy that fails.
LayerThicknessAuxVars_unregisterFields_StopAtError ==
    LET d1 == FieldDestroy(AllFields, FluxLayerThickEdge)
        d2 == IF d1.Err # 0 THEN d1 ELSE FieldDestroy(d1.fields, MeanLayerThickEdge) IN
    /\ Called("LayerThicknessAuxVars::unregisterFields", NULL, "", 0, NoValue)
    /\ out' = NoOut
    /\ ret' = RetVoid
    /\ AllFields' = d2.fields
    /\ fieldHeap' = FieldHeapAfter(d2.fields, heldField, fieldHeap)
    /\ heldMap' = MapPtrAfter(d2.fields, heldField)
    /\ UNCHANGED <<heldField, dimVars, groupVars>>

\* unregisterFields: both destroys, each only logging its error.
LayerThicknessAuxVars_unregisterFields ==
    LET d1 == FieldDestroy(AllFields, FluxLayerThickEdge)
        d2 == FieldDestroy(d1.fields, MeanLayerThickEdge) IN
    /\ Called("LayerThicknessAuxVars::unregisterFields", NULL, "", 0, NoValue)
    /\ out' = NoOut
    /\ ret' = RetVoid
    /\ AllFields' = d2.fields
    /\ fieldHeap' = FieldHeapAfter(d2.fields, heldField, fieldHeap)
    /\ heldMap' = MapPtrAfter(d2.fields, heldField)
    /\ UNCHANGED <<heldField, dimVars, groupVars>>

NextAux ==
    \/ LayerThicknessAuxVars_registerFields("G1", "Default")
    \/ LayerThicknessAuxVars_unregisterFields
    \/ \E Name \in {FluxLayerThickEdge, MeanLayerThickEdge} : MetaData_create(Name)
    \/ \E Name \in {FluxLayerThickEdge, MeanLayerThickEdge} : MetaData_destroy(Name)
    \/ \E Name \in {FluxLayerThickEdge, MeanLayerThickEdge} : MetaData_has(Name)
    \/ \E Name \in {FluxLayerThickEdge, MeanLayerThickEdge} : HoldField(Name)
    \/ ReleaseField
    \/ MetaGroup_create("G1")
    \/ \E g \in GroupIds : MetaGroup_addField(g, FluxLayerThickEdge)

SpecAux == Init /\ [][NextAux]_vars

(***************************************************************************)
(* The three registries together: every operation that changes one.        *)
(***************************************************************************)
NextDimChange ==
    \/ \E Name \in {"D1", "D2"} : MetaDim_create(Name, MaxLength)
    \/ \E Name \in {"D1", "D2"} : MetaDim_destroy(Name)
    \/ MetaDim_clear

NextFieldChange ==
    \/ \E Name \in FieldNameSet : MetaData_create(Name)
    \/ MetaData_createFull("F1", 1, 2, 1, AnyOf("R8", 1), AnyOf("R8", 2),
                           AnyOf("R8", 1), 1, <<"D1">>)
    \/ MetaData_createPairs("F2", <<[first |-> "E1", second |-> AnyOf("I4", 1)]>>)
    \/ \E Name \in FieldNameSet : MetaData_destroy(Name)
    \/ MetaData_clear
    \/ \E h \in FieldIds : MetaData_addEntry(h, "E1", AnyOf("I4", 1))
    \/ \E h \in FieldIds : MetaData_removeEntry(h, "E1")

NextGroupChange ==
    \/ \E Name \in GroupNameSet : MetaGroup_create(Name)
    \/ \E Name \in GroupNameSet : MetaGroup_destroy(Name)
    \/ \E g \in GroupIds : MetaGroup_addField(g, "F1")
    \/ \E g \in GroupIds : MetaGroup_removeField(g, "F1")

Next == NextDimChange \/ NextFieldChange \/ NextGroupChange

Spec == Init /\ [][Next]_vars

(***************************************************************************)
(* Properties of the dimension registry.                                   *)
(***************************************************************************)
NumDims(dims) == Cardinality({n \in DimNameSet : dims[n] # Absent})

\* C1: MetaDim::create(name, length) on an undefined name registers one new
\* dimension and returns it (the count goes up by one); the same call made
\* again right after it returns the very same pointer and leaves the
\* registry, and so the count, as the first call left it.
C1_IdempotentCreate ==
    [][ op'.name = "MetaDim::create" =>
          /\ AllDims[op'.Name] = Absent =>
                /\ ret'.v # NULL
                /\ AllDims'[op'.Name] = ret'.v
                /\ NumDims(AllDims') = NumDims(AllDims) + 1
          /\ rep' = 2 =>
                /\ ret' = ret
                /\ AllDims' = AllDims
                /\ NumDims(AllDims') = NumDims(AllDims) ]_vars

\* The second of two identical create calls has returned the registered
\* dimension.
C1_Witness ==
    /\ op.name = "MetaDim::create"
    /\ rep = 2
    /\ ret.v # NULL
    /\ AllDims[op.Name] = ret.v
    /\ dimHeap[ret.v].Length = op.num

\* C2: MetaDim::create(D, L2) on a name defined with another length returns
\* nullptr and changes neither the map nor any dimension object, and a
\* getDimLength(D) made right after it returns the length D had.
C2_ConflictingCreateRejected ==
    [][ /\ ( /\ op'.name = "MetaDim::create"
             /\ AllDims[op'.Name] # Absent
             /\ dimHeap[AllDims[op'.Name]].Length # op'.num )
           => /\ ret' = RetPtr(NULL)
              /\ AllDims' = AllDims
              /\ dimHeap' = dimHeap
        /\ ( /\ op.name = "MetaDim::create"
             /\ ret = RetPtr(NULL)
             /\ op'.name = "MetaDim::getDimLength"
             /\ op'.Name = op.Name )
           => /\ ret' = RetInt(dimHeap[AllDims[op.Name]].Length)
              /\ ret'.v # op.num ]_vars

\* A create with a different length has been rejected.
C2_Witness ==
    /\ op.name = "MetaDim::create"
    /\ ret = RetPtr(NULL)
    /\ AllDims[op.Name] # Absent
    /\ dimHeap[AllDims[op.Name]].Length # op.num
    /\ NumDims(AllDims) = 2

(***************************************************************************)
(* Properties of the field registry.                                       *)
(***************************************************************************)
FieldCreates == {"MetaData::create", "MetaData::create(full)", "MetaData::create(pairs)"}

\* C3: each of the three forms of MetaData::create, called with a name
\* that has a record, returns nullptr and leaves the map and every record
\* (its NDims, DimNames and MetaMap) as they were, so that get still returns
\* the first record.
C3_FieldNamesUnique ==
    [][ (op'.name \in FieldCreates /\ AllFields[op'.Name] # Absent)
          => /\ ret' = RetPtr(NULL)
             /\ AllFields' = AllFields
             /\ fieldHeap' = fieldHeap ]_vars

\* The full form has been refused for a name whose record was made by the
\* pair-list form and has another number of dimensions.
C3_Witness ==
    /\ op.name = "MetaData::create(full)"
    /\ ret = RetPtr(NULL)
    /\ AllFields[op.Name] # Absent
    /\ fieldHeap[AllFields[op.Name]].NDims # op.num
    /\ fieldHeap[AllFields[op.Name]].MetaMap["E1"] # NoValue
    /\ fieldHeap[AllFields[op.Name]].MetaMap["FillValue"] = NoValue

\* C4: a getEntry made right after a successful addEntry(name, v), on the
\* same record, for the same name and with the kind of v, returns 0 and
\* writes v to Value.
C4_EntryRoundTrip ==
    [][ ( /\ op.name = "MetaData::addEntry"
          /\ ret = RetStatus(0)
          /\ op'.name = "MetaData::getEntry"
          /\ op'.h = op.h
          /\ op'.Name = op.Name
          /\ op'.Value.kind = op.Value.kind )
          => /\ ret' = RetStatus(0)
             /\ out'.Value = op.Value ]_vars

\* getEntry has returned an R4 entry while the record holds a second entry
\* of another kind.
C4_Witness ==
    /\ op.name = "MetaData::getEntry"
    /\ ret = RetStatus(0)
    /\ out.Value = AnyOf("R4", MaxVal)
    /\ fieldHeap[op.h].MetaMap[op.Name] = out.Value
    /\ \E e \in EntryInputs \ {op.Name} : fieldHeap[op.h].MetaMap[e].kind = "string"

\* C5: getEntry for an entry stored with another kind returns a nonzero
\* status (it does not throw) and writes nothing to Value.
C5_TypeMismatchReturned ==
    ( /\ op.name = "MetaData::getEntry"
      /\ fieldHeap[op.h].MetaMap[op.Name] # NoValue
      /\ fieldHeap[op.h].MetaMap[op.Name].kind # op.Value.kind )
      => /\ ret.t = "status"
         /\ ret.v # 0
         /\ out.Value = NoValue

\* C6: addEntry for a name the record already has returns a nonzero status
\* and changes no record; an addEntry made right after a successful
\* removeEntry of the same name on the same record returns 0 and stores its
\* value; and a getEntry that returns 0 writes the stored value to Value.
C6_DuplicateEntryRejectedThenReplaceable ==
    [][ /\ ( /\ op'.name = "MetaData::addEntry"
             /\ fieldHeap[op'.h].MetaMap[op'.Name] # NoValue )
           => /\ ret'.t = "status" /\ ret'.v # 0
              /\ fieldHeap' = fieldHeap
        /\ ( /\ op.name = "MetaData::removeEntry"
             /\ ret = RetStatus(0)
             /\ op'.name = "MetaData::addEntry"
             /\ op'.h = op.h
             /\ op'.Name = op.Name )
           => /\ ret' = RetStatus(0)
              /\ fieldHeap'[op'.h].MetaMap[op'.Name] = op'.Value
        /\ ( /\ op'.name = "MetaData::removeEntry"
             /\ fieldHeap[op'.h].MetaMap[op'.Name] # NoValue )
           => /\ ret' = RetStatus(0)
              /\ fieldHeap'[op'.h].MetaMap[op'.Name] = NoValue
        /\ ( /\ op'.name = "MetaData::getEntry"
             /\ ret' = RetStatus(0) )
           => out'.Value = fieldHeap[op'.h].MetaMap[op'.Name] ]_vars

\* An addEntry with another value of the same kind has been refused and the
\* first value is still stored.
C6_Witness ==
    /\ op.name = "MetaData::addEntry"
    /\ ret = RetStatus(-1)
    /\ fieldHeap[op.h].MetaMap[op.Name].kind = op.Value.kind
    /\ fieldHeap[op.h].MetaMap[op.Name].val # op.Value.val

(***************************************************************************)
(* Properties of the group registry.                                       *)
(***************************************************************************)
\* C7: destroying a field record or clearing the field registry changes no
\* group; for a member F of G that has no field record, G.hasField(F)
\* returns true and G.getField(F) returns nullptr and changes nothing.
C7_DanglingMember ==
    [][ /\ op'.name \in {"MetaData::destroy", "MetaData::clear"}
           => /\ groupHeap' = groupHeap
              /\ AllGroups' = AllGroups
        /\ ( /\ op'.name = "MetaGroup::hasField"
             /\ op'.Name \in groupHeap[op'.h].Fields
             /\ AllFields[op'.Name] = Absent )
           => ret' = RetBool(TRUE)
        /\ ( /\ op'.name = "MetaGroup::getField"
             /\ op'.Name \in groupHeap[op'.h].Fields
             /\ AllFields[op'.Name] = Absent )
           => /\ ret' = RetPtr(NULL)
              /\ UNCHANGED <<dimVars, fieldVars, groupVars>> ]_vars

\* getField has returned nullptr for a member whose record was destroyed:
\* the record is still alive in the hands of a caller, and out of the map.
C7_Witness ==
    /\ op.name = "MetaGroup::getField"
    /\ ret = RetPtr(NULL)
    /\ op.Name \in groupHeap[op.h].Fields
    /\ AllFields[op.Name] = Absent
    /\ heldField # NULL
    /\ fieldHeap[heldField].FieldName = op.Name

\* C8: MetaDim::clear leaves no dimension defined and changes neither the
\* field nor the group registry; MetaData::clear leaves no field defined and
\* changes neither the dimension nor the group registry.
C8_ClearCompleteAndIsolated ==
    [][ /\ op'.name = "MetaDim::clear"
           => /\ \A n \in DimNameSet : AllDims'[n] = Absent
              /\ NumDims(AllDims') = 0
              /\ UNCHANGED <<fieldVars, groupVars>>
        /\ op'.name = "MetaData::clear"
           => /\ \A n \in FieldNameSet : AllFields'[n] = Absent
              /\ UNCHANGED <<dimVars, groupVars>> ]_vars

\* The field registry has just been cleared while two dimensions are defined
\* and a group has a member.
C8_Witness ==
    /\ op.name = "MetaData::clear"
    /\ \A n \in FieldNameSet : AllFields[n] = Absent
    /\ NumDims(AllDims) = 2
    /\ \E n \in GroupNameSet : AllGroups[n] # Absent /\ groupHeap[AllGroups[n]].Fields # {}

C10_AddFieldInsertsDespiteError ==
    [][ /\ (op'.name = "MetaGroup::addField" /\ AllFields[op'.Name] = Absent)
           => /\ ret' = RetStatus(-2)
              /\ groupHeap'[op'.h].Fields = groupHeap[op'.h].Fields \cup {op'.Name}
        /\ op'.name = "MetaGroup::hasField"
           => ret' = RetBool(op'.Name \in groupHeap[op'.h].Fields)
        /\ op'.name = "MetaGroup::getFieldList"
           => out'.List = groupHeap[op'.h].Fields ]_vars

\* addField has returned -2 for a name that was not a member of any group
\* and has no record, and the name is a member now.
C10_Witness ==
    /\ op.name = "MetaGroup::addField"
    /\ ret = RetStatus(-2)
    /\ AllFields[op.Name] = Absent
    /\ heldField = NULL
    /\ op.Name \in groupHeap[op.h].Fields
    /\ \A n \in FieldNameSet : AllFields[n] = Absent

(***************************************************************************)
(* Rejected calls.                                                         *)
(***************************************************************************)
FailingOps == {"MetaDim::create", "MetaDim::destroy", "MetaDim::get",
               "MetaData::create", "MetaData::create(full)", "MetaData::create(pairs)",
               "MetaData::destroy", "MetaData::get", "MetaData::addEntry",
               "MetaData::removeEntry", "MetaData::getEntry",
               "MetaGroup::create", "MetaGroup::destroy", "MetaGroup::get",
               "MetaGroup::addField", "MetaGroup::removeField", "MetaGroup::getField"}

\* C11: a call of create, destroy, get, addEntry, removeEntry, getEntry,
\* addField, removeField or getField that returns nullptr or a nonzero
\* status leaves the three maps and every object they point to (lengths,
\* entries, dimension names, member sets) exactly as they were.
C11_NoPartialWrites ==
    [][ ( /\ op'.name \in FailingOps
          /\ \/ ret' = RetPtr(NULL)
             \/ (ret'.t = "status" /\ ret'.v # 0) )
          => /\ AllDims' = AllDims /\ dimHeap' = dimHeap
             /\ AllFields' = AllFields /\ fieldHeap' = fieldHeap
             /\ AllGroups' = AllGroups /\ groupHeap' = groupHeap ]_vars

(***************************************************************************)
(* Further properties of the dimension registry.                           *)
(***************************************************************************)
\* C12: MetaDim::destroy(name) on a defined name returns 0, removes the name
\* from the map (a has(name) made right after returns false), lowers the
\* count by exactly one and leaves every other name with its object and its
\* length; on an undefined name it returns a nonzero status and leaves the
\* map and the objects as they were.
C12_DimDestroy ==
    [][ /\ (op'.name = "MetaDim::destroy" /\ AllDims[op'.Name] # Absent)
           => /\ ret' = RetStatus(0)
              /\ AllDims'[op'.Name] = Absent
              /\ NumDims(AllDims') = NumDims(AllDims) - 1
              /\ \A n \in DimNameSet \ {op'.Name} :
                    /\ AllDims'[n] = AllDims[n]
                    /\ AllDims[n] # Absent => dimHeap'[AllDims[n]] = dimHeap[AllDims[n]]
        /\ (op'.name = "MetaDim::destroy" /\ AllDims[op'.Name] = Absent)
           => /\ ret'.t = "status" /\ ret'.v # 0
              /\ AllDims' = AllDims
              /\ dimHeap' = dimHeap
        /\ ( /\ op.name = "MetaDim::destroy"
             /\ ret = RetStatus(0)
             /\ op'.name = "MetaDim::has"
             /\ op'.Name = op.Name )
           => ret' = RetBool(FALSE) ]_vars

\* One of three dimensions has been destroyed: the two others are still
\* defined, one of them with the largest length.
C12_Witness ==
    /\ op.name = "MetaDim::destroy"
    /\ ret = RetStatus(0)
    /\ AllDims[op.Name] = Absent
    /\ NumDims(AllDims) = 2
    /\ \E n \in DimNameSet : AllDims[n] # Absent /\ dimHeap[AllDims[n]].Length = MaxLength

\* C13: the object registered under a name holds the length given to the
\* create call that registered it, and holds it for as long as it stays
\* registered; MetaDim::getDimLength(name) returns that length, the same
\* value getLength() returns on the pointer get(name) gives, and returns -1
\* for an undefined name; neither call changes the map or an object.
C13_DimLengthLookup ==
    [][ /\ (op'.name = "MetaDim::create" /\ AllDims[op'.Name] = Absent)
           => dimHeap'[AllDims'[op'.Name]].Length = op'.num
        /\ \A n \in DimNameSet :
              (AllDims[n] # Absent /\ AllDims'[n] # Absent)
                 => /\ AllDims'[n] = AllDims[n]
                    /\ dimHeap'[AllDims[n]].Length = dimHeap[AllDims[n]].Length
        /\ op'.name = "MetaDim::getDimLength"
           => /\ AllDims[op'.Name] # Absent
                    => ret' = RetInt(dimHeap[AllDims[op'.Name]].Length)
              /\ AllDims[op'.Name] = Absent => ret' = RetInt(-1)
              /\ AllDims' = AllDims
              /\ dimHeap' = dimHeap
        /\ op'.name = "MetaDim::getLength"
           => /\ op'.h = AllDims[op'.Name]
              /\ ret' = RetInt(dimHeap[AllDims[op'.Name]].Length)
              /\ AllDims' = AllDims
              /\ dimHeap' = dimHeap
        /\ ( /\ op.name = "MetaDim::getLength"
             /\ op'.name = "MetaDim::getDimLength"
             /\ op'.Name = op.Name )
           => ret' = ret ]_vars

\* getDimLength has returned the length of a defined dimension while another
\* dimension is defined with another length.
C13_Witness ==
    /\ op.name = "MetaDim::getDimLength"
    /\ AllDims[op.Name] # Absent
    /\ ret = RetInt(MaxLength)
    /\ \E n \in DimNameSet : AllDims[n] # Absent /\ dimHeap[AllDims[n]].Length # MaxLength

\* C14: whatever create, destroy and clear calls came before, accepted or
\* rejected, MetaDim::getNumDefinedDims() returns the number of names n for
\* which MetaDim::has(n) returns true, has(n) being true exactly for the
\* names in the map.
C14_CountInvariant ==
    [][ /\ op'.name = "MetaDim::getNumDefinedDims"
           => /\ ret' = RetInt(Cardinality({n \in DimNameSet : AllDims[n] # Absent}))
              /\ AllDims' = AllDims
        /\ op'.name = "MetaDim::has"
           => /\ ret' = RetBool(AllDims[op'.Name] # Absent)
              /\ AllDims' = AllDims
        /\ ( /\ op.name = "MetaDim::getNumDefinedDims"
             /\ op'.name = "MetaDim::has" )
           => /\ ret.v = 0 => ret' = RetBool(FALSE)
              /\ ret.v = Cardinality(DimNameSet) => ret' = RetBool(TRUE) ]_vars

\* The count has been read as 2 while one of the two dimensions has a length
\* that is not positive.
C14_Witness ==
    /\ op.name = "MetaDim::getNumDefinedDims"
    /\ ret = RetInt(2)
    /\ Cardinality({n \in DimNameSet : AllDims[n] # Absent}) = 2
    /\ \E n \in DimNameSet : AllDims[n] # Absent /\ dimHeap[AllDims[n]].Length <= 0

\* The place of a name in the order of std::string.
DimPos(n) == CHOOSE k \in 1..Len(DimNameSeq) : DimNameSeq[k] = n

\* C15: a walk from MetaDim::begin() to MetaDim::end() visits every name in
\* the map at the time of the walk exactly once, in ascending order of
\* name, each with the length of the object registered under it; it visits
\* as many elements as getNumDefinedDims() has just returned, and changes
\* nothing.
C15_DimIteration ==
    [][ /\ op'.name = "MetaDim::begin..end"
           => LET W == out'.Walk IN
              /\ Len(W) = Cardinality({n \in DimNameSet : AllDims[n] # Absent})
              /\ {W[i].first : i \in 1..Len(W)} = {n \in DimNameSet : AllDims[n] # Absent}
              /\ \A i, j \in 1..Len(W) : i < j => DimPos(W[i].first) < DimPos(W[j].first)
              /\ \A i \in 1..Len(W) : W[i].Length = dimHeap[AllDims[W[i].first]].Length
              /\ AllDims' = AllDims
              /\ dimHeap' = dimHeap
        /\ (op.name = "MetaDim::getNumDefinedDims" /\ op'.name = "MetaDim::begin..end")
           => Len(out'.Walk) = ret.v ]_vars

\* A walk has visited the first and the last name of the universe, of
\* different lengths, while the name between them is not defined.
C15_Witness ==
    /\ op.name = "MetaDim::begin..end"
    /\ Len(out.Walk) = 2
    /\ out.Walk[1].first = DimNameSeq[1]
    /\ out.Walk[2].first = DimNameSeq[Len(DimNameSeq)]
    /\ out.Walk[1].Length # out.Walk[2].Length
    /\ AllDims[DimNameSeq[2]] = Absent

(***************************************************************************)
(* Retrieval by name.                                                      *)
(***************************************************************************)
DimCreates == {"MetaDim::create"}
GroupCreates == {"MetaGroup::create"}

\* C16: in each of the three registries a create that registers a name
\* returns the pointer it puts in the map; that pointer stays in the map,
\* on the same object, until the name is destroyed or the registry is
\* cleared; get(name) returns the pointer in the map for a defined name and
\* nullptr for an undefined one, so a get made right after a successful
\* create of the same name returns what create returned.
C16_GetReturnsCreated ==
    [][ /\ (op'.name \in DimCreates /\ AllDims[op'.Name] = Absent)
           => ret'.v # NULL /\ AllDims'[op'.Name] = ret'.v
        /\ (op'.name \in FieldCreates /\ AllFields[op'.Name] = Absent)
           => ret'.v # NULL /\ AllFields'[op'.Name] = ret'.v
        /\ (op'.name \in GroupCreates /\ AllGroups[op'.Name] = Absent)
           => ret'.v # NULL /\ AllGroups'[op'.Name] = ret'.v
        /\ \A n \in DimNameSet : (AllDims[n] # Absent /\ AllDims'[n] # AllDims[n])
              => /\ AllDims'[n] = Absent
                 /\ \/ op'.name = "MetaDim::clear"
                    \/ op'.name = "MetaDim::destroy" /\ op'.Name = n
        /\ \A n \in FieldNameSet : (AllFields[n] # Absent /\ AllFields'[n] # AllFields[n])
              => /\ AllFields'[n] = Absent
                 /\ \/ op'.name = "MetaData::clear"
                    \/ op'.name = "MetaData::destroy" /\ op'.Name = n
        /\ \A n \in GroupNameSet : (AllGroups[n] # Absent /\ AllGroups'[n] # AllGroups[n])
              => /\ AllGroups'[n] = Absent
                 /\ op'.name = "MetaGroup::destroy" /\ op'.Name = n
        /\ \A n \in DimNameSet : AllDims'[n] # Absent => dimHeap'[AllDims'[n]].DimName = n
        /\ \A n \in FieldNameSet : AllFields'[n] # Absent => fieldHeap'[AllFields'[n]].FieldName = n
        /\ \A n \in GroupNameSet : AllGroups'[n] # Absent => groupHeap'[AllGroups'[n]].GrpName = n
        /\ op'.name = "MetaDim::get"
           => ret' = RetPtr(IF AllDims[op'.Name] = Absent THEN NULL ELSE AllDims[op'.Name])
        /\ op'.name = "MetaData::get"
           => ret' = RetPtr(IF AllFields[op'.Name] = Absent THEN NULL ELSE AllFields[op'.Name])
        /\ op'.name = "MetaGroup::get"
           => ret' = RetPtr(IF AllGroups[op'.Name] = Absent THEN NULL ELSE AllGroups[op'.Name])
        /\ ( /\ \/ op.name \in DimCreates /\ op'.name = "MetaDim::get"
                \/ op.name \in FieldCreates /\ op'.name = "MetaData::get"
                \/ op.name \in GroupCreates /\ op'.name = "MetaGroup::get"
             /\ op'.Name = op.Name
             /\ ret.v # NULL )
           => ret' = ret ]_vars

\* MetaGroup::get has returned the second of two groups while both fields
\* and a dimension are defined.
C16_Witness ==
    /\ op.name = "MetaGroup::get"
    /\ ret.v # NULL
    /\ AllGroups[op.Name] = ret.v
    /\ groupHeap[ret.v].GrpName = op.Name
    /\ \E n \in GroupNameSet \ {op.Name} : AllGroups[n] # Absent /\ AllGroups[n] < ret.v
    /\ \A n \in FieldNameSet : AllFields[n] # Absent
    /\ \E n \in DimNameSet : AllDims[n] # Absent

(***************************************************************************)
(* What the forms of MetaData::create put in the record.                   *)
(***************************************************************************)
RequiredEntries == {"Description", "Units", "StdName", "ValidMin", "ValidMax", "FillValue"}

\* C17: the full form of MetaData::create, called with a free name,
\* returns a registered record whose NDims is the NumDims given, whose
\* DimNames is the Dimensions given, in that order, and whose entries are
\* exactly Description, Units, StdName, ValidMin, ValidMax and FillValue
\* with the values given; a getNumDims() made on it right after returns
\* NumDims.
C17_FullCreatePopulates ==
    [][ /\ (op'.name = "MetaData::create(full)" /\ AllFields[op'.Name] = Absent)
           => \A Dimensions \in DimSeqs :
                 MetaData_createFull(op'.Name, 1, 2, 1, AnyOf("R8", 1), AnyOf("R8", 2),
                                     op'.Value, op'.num, Dimensions)
                 => /\ ret'.t = "ptr" /\ ret'.v # NULL
                    /\ AllFields'[op'.Name] = ret'.v
                    /\ fieldHeap'[ret'.v].NDims = op'.num
                    /\ fieldHeap'[ret'.v].DimNames = Dimensions
                    /\ {e \in EntryNameSet : fieldHeap'[ret'.v].MetaMap[e] # NoValue}
                          = RequiredEntries
                    /\ fieldHeap'[ret'.v].MetaMap["Description"] = AnyOf("string", 1)
                    /\ fieldHeap'[ret'.v].MetaMap["Units"] = AnyOf("string", 2)
                    /\ fieldHeap'[ret'.v].MetaMap["StdName"] = AnyOf("string", 1)
                    /\ fieldHeap'[ret'.v].MetaMap["ValidMin"] = AnyOf("R8", 1)
                    /\ fieldHeap'[ret'.v].MetaMap["ValidMax"] = AnyOf("R8", 2)
                    /\ fieldHeap'[ret'.v].MetaMap["FillValue"] = op'.Value
        /\ ( /\ op.name = "MetaData::create(full)"
             /\ ret.v # NULL
             /\ op'.name = "MetaData::getNumDims"
             /\ op'.h = ret.v )
           => ret' = RetInt(op.num) ]_vars

\* The full form has made a record of two dimensions with an I4 fill value
\* while the other name has a record too.
C17_Witness ==
    /\ op.name = "MetaData::create(full)"
    /\ ret.v # NULL
    /\ AllFields[op.Name] = ret.v
    /\ fieldHeap[ret.v].NDims = 2
    /\ fieldHeap[ret.v].DimNames = <<"D2", "D1">>
    /\ fieldHeap[ret.v].MetaMap["FillValue"] = AnyOf("I4", 1)
    /\ \A n \in FieldNameSet : AllFields[n] # Absent

\* The names of a pair list, and whether no name comes twice.
PairNames(MetaPairs) == {MetaPairs[i].first : i \in 1..Len(MetaPairs)}
PairwiseDistinct(MetaPairs) ==
    \A i, j \in 1..Len(MetaPairs) : i # j => MetaPairs[i].first # MetaPairs[j].first

\* C18: the pair-list form of MetaData::create, called with a free name and
\* a list in which no entry name comes twice, returns a registered record
\* with NDims 0, no dimension names, and exactly the pairs of the list as
\* its entries.
C18_BatchCreatePopulates ==
    [][ (op'.name = "MetaData::create(pairs)" /\ AllFields[op'.Name] = Absent)
          => \A MetaPairs \in [1..op'.num -> PairSet] :
                (PairwiseDistinct(MetaPairs) /\ MetaData_createPairs(op'.Name, MetaPairs))
                => /\ ret'.t = "ptr" /\ ret'.v # NULL
                   /\ AllFields'[op'.Name] = ret'.v
                   /\ fieldHeap'[ret'.v].NDims = 0
                   /\ fieldHeap'[ret'.v].DimNames = <<>>
                   /\ { [first |-> e, second |-> fieldHeap'[ret'.v].MetaMap[e]] :
                          e \in {x \in EntryNameSet : fieldHeap'[ret'.v].MetaMap[x] # NoValue} }
                         = {MetaPairs[i] : i \in 1..Len(MetaPairs)} ]_vars

\* The pair-list form has made a record out of two pairs of different
\* names.
C18_Witness ==
    /\ op.name = "MetaData::create(pairs)"
    /\ op.num = 2
    /\ ret.v # NULL
    /\ AllFields[op.Name] = ret.v
    /\ fieldHeap[ret.v].NDims = 0
    /\ \A e \in EntryInputs : fieldHeap[ret.v].MetaMap[e] # NoValue

\* C19: the pair-list form of MetaData::create, called with a free name and
\* a list in which an entry name comes more than once, still returns a
\* registered record; every name of the list is an entry of it and holds
\* the value of the first pair with that name, also for the names that come
\* after the repeated one, and nothing else is an entry.
C19_BatchDuplicateKeys ==
    [][ (op'.name = "MetaData::create(pairs)" /\ AllFields[op'.Name] = Absent)
          => \A MetaPairs \in [1..op'.num -> PairSet] :
                (~PairwiseDistinct(MetaPairs) /\ MetaData_createPairs(op'.Name, MetaPairs))
                => /\ ret'.t = "ptr" /\ ret'.v # NULL
                   /\ AllFields'[op'.Name] = ret'.v
                   /\ \A i \in 1..Len(MetaPairs) :
                         (\A j \in 1..(i - 1) : MetaPairs[j].first # MetaPairs[i].first)
                            => fieldHeap'[ret'.v].MetaMap[MetaPairs[i].first] = MetaPairs[i].second
                   /\ \A e \in EntryNameSet \ PairNames(MetaPairs) :
                         fieldHeap'[ret'.v].MetaMap[e] = NoValue ]_vars

\* A list of three pairs over two names, in which a name therefore came more
\* than once, has made a record that holds both names, the first with its
\* I4 value.
C19_Witness ==
    /\ op.name = "MetaData::create(pairs)"
    /\ op.num = 3
    /\ ret.v # NULL
    /\ AllFields[op.Name] = ret.v
    /\ fieldHeap[ret.v].MetaMap["E1"] = AnyOf("I4", 1)
    /\ fieldHeap[ret.v].MetaMap["E2"] = AnyOf("bool", 1)

\* C20: getDimNames on a record with NDims > 0 returns 0 and leaves in the
\* output vector exactly the first NDims dimension names of the record, in
\* stored order; on a record with NDims = 0 it returns 0 and leaves the
\* vector empty; nothing the vector held before is left, and no record
\* changes.
C20_GetDimNames ==
    [][ op'.name = "MetaData::getDimNames"
          => LET Data == fieldHeap[op'.h] IN
             /\ Data.NDims > 0
                  => /\ ret' = RetStatus(0)
                     /\ Len(out'.Dimensions) = Data.NDims
                     /\ \A i \in 1..Data.NDims :
                           /\ i \in DOMAIN Data.DimNames
                           /\ out'.Dimensions[i] = Data.DimNames[i]
             /\ Data.NDims = 0
                  => /\ ret' = RetStatus(0)
                     /\ out'.Dimensions = <<>>
             /\ fieldHeap' = fieldHeap
             /\ AllFields' = AllFields ]_vars

(***************************************************************************)
(* Removal of entries, records, groups and members.                        *)
(***************************************************************************)
\* C21: removeEntry(E) on a record that has the entry E returns 0 and takes
\* E out of the record (a hasEntry(E) made right after returns false); the
\* other entries, the dimensions and the name of that record, every other
\* record and the map stay as they were.  On a record without E it returns
\* a nonzero status and changes nothing.
C21_RemoveEntry ==
    [][ /\ ( /\ op'.name = "MetaData::removeEntry"
             /\ fieldHeap[op'.h].MetaMap[op'.Name] # NoValue )
           => /\ ret' = RetStatus(0)
              /\ fieldHeap'[op'.h].MetaMap[op'.Name] = NoValue
              /\ \A e \in EntryNameSet \ {op'.Name} :
                    fieldHeap'[op'.h].MetaMap[e] = fieldHeap[op'.h].MetaMap[e]
              /\ fieldHeap'[op'.h].NDims = fieldHeap[op'.h].NDims
              /\ fieldHeap'[op'.h].DimNames = fieldHeap[op'.h].DimNames
              /\ fieldHeap'[op'.h].FieldName = fieldHeap[op'.h].FieldName
              /\ \A i \in FieldIds \ {op'.h} : fieldHeap'[i] = fieldHeap[i]
              /\ AllFields' = AllFields
        /\ ( /\ op'.name = "MetaData::removeEntry"
             /\ fieldHeap[op'.h].MetaMap[op'.Name] = NoValue )
           => /\ ret'.t = "status" /\ ret'.v # 0
              /\ fieldHeap' = fieldHeap
              /\ AllFields' = AllFields
        /\ ( /\ op.name = "MetaData::removeEntry"
             /\ ret = RetStatus(0)
             /\ op'.name = "MetaData::hasEntry"
             /\ op'.h = op.h
             /\ op'.Name = op.Name )
           => ret' = RetBool(FALSE) ]_vars

\* An entry has been removed from a record that keeps another entry, while
\* another record still has an entry of the removed name.
C21_Witness ==
    /\ op.name = "MetaData::removeEntry"
    /\ ret = RetStatus(0)
    /\ fieldHeap[op.h].MetaMap[op.Name] = NoValue
    /\ \E e \in EntryInputs : fieldHeap[op.h].MetaMap[e] # NoValue
    /\ \E i \in FieldIds \ {op.h} : fieldHeap[i].MetaMap[op.Name] # NoValue

\* C22: MetaData::destroy(name) on a name that has a record returns 0 and
\* takes the name out of the map (a has(name) made right after returns
\* false); every other name keeps its record, with its entries, NDims and
\* DimNames.  On a name without a record it returns a nonzero status and
\* leaves the map and the records as they were.
C22_FieldDestroy ==
    [][ /\ (op'.name = "MetaData::destroy" /\ AllFields[op'.Name] # Absent)
           => /\ ret' = RetStatus(0)
              /\ AllFields'[op'.Name] = Absent
              /\ \A n \in FieldNameSet \ {op'.Name} :
                    /\ AllFields'[n] = AllFields[n]
                    /\ AllFields[n] # Absent
                          => fieldHeap'[AllFields[n]] = fieldHeap[AllFields[n]]
        /\ (op'.name = "MetaData::destroy" /\ AllFields[op'.Name] = Absent)
           => /\ ret'.t = "status" /\ ret'.v # 0
              /\ AllFields' = AllFields
              /\ fieldHeap' = fieldHeap
        /\ ( /\ op.name = "MetaData::destroy"
             /\ ret = RetStatus(0)
             /\ op'.name = "MetaData::has"
             /\ op'.Name = op.Name )
           => ret' = RetBool(FALSE) ]_vars

\* A record has been destroyed while the other name keeps a record of two
\* dimensions with its six entries.
C22_Witness ==
    /\ op.name = "MetaData::destroy"
    /\ ret = RetStatus(0)
    /\ AllFields[op.Name] = Absent
    /\ \E n \in FieldNameSet :
          /\ AllFields[n] # Absent
          /\ fieldHeap[AllFields[n]].NDims = 2
          /\ fieldHeap[AllFields[n]].DimNames = <<"D2", "D1">>
          /\ fieldHeap[AllFields[n]].MetaMap["FillValue"] # NoValue

\* C23: MetaGroup::create(name) on a free name registers a new group of
\* that name with no member and returns it; on a taken name it returns
\* nullptr and the group of that name, like every other, keeps its members.
\* MetaGroup::destroy(name) on a defined name returns 0 and takes the name
\* out of the map (a has(name) made right after returns false); on an
\* undefined name it returns a nonzero status and changes nothing.
C23_GroupCreateDestroy ==
    [][ /\ (op'.name = "MetaGroup::create" /\ AllGroups[op'.Name] = Absent)
           => /\ ret'.t = "ptr" /\ ret'.v # NULL
              /\ AllGroups'[op'.Name] = ret'.v
              /\ groupHeap'[ret'.v].Fields = {}
              /\ groupHeap'[ret'.v].GrpName = op'.Name
              /\ \A n \in GroupNameSet \ {op'.Name} :
                    /\ AllGroups'[n] = AllGroups[n]
                    /\ AllGroups[n] # Absent => groupHeap'[AllGroups[n]] = groupHeap[AllGroups[n]]
        /\ (op'.name = "MetaGroup::create" /\ AllGroups[op'.Name] # Absent)
           => /\ ret' = RetPtr(NULL)
              /\ AllGroups' = AllGroups
              /\ groupHeap' = groupHeap
        /\ (op'.name = "MetaGroup::destroy" /\ AllGroups[op'.Name] # Absent)
           => /\ ret' = RetStatus(0)
              /\ AllGroups'[op'.Name] = Absent
        /\ (op'.name = "MetaGroup::destroy" /\ AllGroups[op'.Name] = Absent)
           => /\ ret'.t = "status" /\ ret'.v # 0
              /\ AllGroups' = AllGroups
              /\ groupHeap' = groupHeap
        /\ ( /\ op.name = "MetaGroup::destroy"
             /\ ret = RetStatus(0)
             /\ op'.name = "MetaGroup::has"
             /\ op'.Name = op.Name )
           => ret' = RetBool(FALSE)
        /\ op'.name \in {"MetaGroup::create", "MetaGroup::destroy"}
           => UNCHANGED <<dimVars, fieldVars>> ]_vars

\* A create has been refused for a group that has members.
C23_Witness ==
    /\ op.name = "MetaGroup::create"
    /\ ret = RetPtr(NULL)
    /\ AllGroups[op.Name] # Absent
    /\ groupHeap[AllGroups[op.Name]].Fields = FieldNameSet

\* C24: G.removeField(F) for a member F of G returns 0 and takes F, and
\* nothing but F, out of the members of G (a G.hasField(F) made right after
\* returns false), whether a field record named F exists or not; for a name
\* that is not a member it returns a nonzero status and leaves G as it was.
\* In both cases the other groups and the field registry are unchanged.
C24_RemoveField ==
    [][ /\ (op'.name = "MetaGroup::removeField" /\ op'.Name \in groupHeap[op'.h].Fields)
           => /\ ret' = RetStatus(0)
              /\ groupHeap'[op'.h].Fields = groupHeap[op'.h].Fields \ {op'.Name}
              /\ groupHeap'[op'.h].GrpName = groupHeap[op'.h].GrpName
        /\ (op'.name = "MetaGroup::removeField" /\ op'.Name \notin groupHeap[op'.h].Fields)
           => /\ ret'.t = "status" /\ ret'.v # 0
              /\ groupHeap'[op'.h] = groupHeap[op'.h]
        /\ op'.name = "MetaGroup::removeField"
           => /\ \A i \in GroupIds \ {op'.h} : groupHeap'[i] = groupHeap[i]
              /\ AllGroups' = AllGroups
              /\ AllFields' = AllFields
              /\ fieldHeap' = fieldHeap
        /\ ( /\ op.name = "MetaGroup::removeField"
             /\ ret = RetStatus(0)
             /\ op'.name = "MetaGroup::hasField"
             /\ op'.h = op.h
             /\ op'.Name = op.Name )
           => ret' = RetBool(FALSE) ]_vars

\* A member whose field record does not exist has been removed from a group
\* that keeps another member.
C24_Witness ==
    /\ op.name = "MetaGroup::removeField"
    /\ ret = RetStatus(0)
    /\ AllFields[op.Name] = Absent
    /\ op.Name \notin groupHeap[op.h].Fields
    /\ groupHeap[op.h].Fields # {}

C26_FieldListIsCopy ==
    [][ /\ op'.name = "MetaGroup::getFieldList"
           => /\ out'.List = groupHeap[op'.h].Fields
              /\ heldList' # heldList => heldList' = groupHeap[op'.h].Fields
              /\ groupHeap' = groupHeap /\ AllGroups' = AllGroups
        /\ op'.name \in {"MetaGroup::addField", "MetaGroup::removeField",
                         "MetaGroup::create", "MetaGroup::destroy"}
           => heldList' = heldList
        /\ op'.name = "List.insert"
           => /\ heldList' = heldList \cup {op'.Name}
              /\ groupHeap' = groupHeap /\ AllGroups' = AllGroups
        /\ op'.name = "List.erase"
           => /\ heldList' = heldList \ {op'.Name}
              /\ groupHeap' = groupHeap /\ AllGroups' = AllGroups ]_vars

\* A member has just been added to a group whose list the caller took
\* before: the list the caller keeps does not have it, and has a name the
\* group does not have.
C26_Witness ==
    /\ op.name = "MetaGroup::addField"
    /\ op.Name \in groupHeap[op.h].Fields
    /\ op.Name \notin heldList
    /\ \E f \in heldList : f \notin groupHeap[op.h].Fields
    /\ AllFields[op.Name] = Absent

\* C27: G.addField(F) for a name F that has a field record and is a member
\* of G already returns 0 and leaves the members of G as they were.  Any
\* addField leaves the group with the members it had and F, F counted once:
\* the number of members grows by one for a new member and not at all for
\* an old one, and never exceeds the number of names.
C27_AddFieldIdempotent ==
    [][ /\ ( /\ op'.name = "MetaGroup::addField"
             /\ AllFields[op'.Name] # Absent
             /\ op'.Name \in groupHeap[op'.h].Fields )
           => /\ ret' = RetStatus(0)
              /\ groupHeap'[op'.h] = groupHeap[op'.h]
        /\ op'.name = "MetaGroup::addField"
           => /\ groupHeap'[op'.h].Fields = groupHeap[op'.h].Fields \cup {op'.Name}
              /\ Cardinality(groupHeap'[op'.h].Fields)
                    = Cardinality(groupHeap[op'.h].Fields)
                      + (IF op'.Name \in groupHeap[op'.h].Fields THEN 0 ELSE 1)
              /\ \A i \in GroupIds \ {op'.h} : groupHeap'[i] = groupHeap[i]
        /\ \A i \in GroupIds : Cardinality(groupHeap'[i].Fields) <= Cardinality(FieldNameSet) ]_vars

\* The same addField has been made twice in a row for a name that has a
\* field record: the second has returned 0 and the name is a member, next
\* to another one.
C27_Witness ==
    /\ op.name = "MetaGroup::addField"
    /\ rep = 2
    /\ ret = RetStatus(0)
    /\ AllFields[op.Name] # Absent
    /\ op.Name \in groupHeap[op.h].Fields
    /\ Cardinality(groupHeap[op.h].Fields) = 2

\* C28: the full-form create of a field succeeds exactly when the field
\* name is free, whatever dimensions are defined; it stores the dimension
\* names it is given, defined or not, and leaves the dimension registry as
\* it was.  Destroying a dimension or clearing the dimensions leaves every
\* field record, its NDims and DimNames included, and the field registry as
\* they were.
C28_DimNamesUnvalidated ==
    [][ /\ op'.name = "MetaData::create(full)"
           => /\ (ret' # RetPtr(NULL)) <=> (AllFields[op'.Name] = Absent)
              /\ AllDims' = AllDims
              /\ dimHeap' = dimHeap
              /\ \A Dimensions \in DimSeqs :
                    ( /\ ret' # RetPtr(NULL)
                      /\ MetaData_createFull(op'.Name, 1, 2, 1, AnyOf("R8", 1), AnyOf("R8", 2),
                                             op'.Value, op'.num, Dimensions) )
                    => fieldHeap'[ret'.v].DimNames = Dimensions
        /\ op'.name \in {"MetaDim::destroy", "MetaDim::clear"}
           => /\ AllFields' = AllFields
              /\ \A i \in FieldIds :
                    /\ fieldHeap'[i].NDims = fieldHeap[i].NDims
                    /\ fieldHeap'[i].DimNames = fieldHeap[i].DimNames
                    /\ fieldHeap'[i] = fieldHeap[i] ]_vars

\* The full-form create has just made a field with one dimension name that
\* names no defined dimension.
C28_Witness ==
    /\ op.name = "MetaData::create(full)"
    /\ ret # RetPtr(NULL)
    /\ AllFields[op.Name] = ret.v
    /\ fieldHeap[ret.v].NDims = 1
    /\ Len(fieldHeap[ret.v].DimNames) = 1
    /\ \A i \in DOMAIN fieldHeap[ret.v].DimNames : AllDims[fieldHeap[ret.v].DimNames[i]] = Absent

\* C29: MetaData::destroy(F) and MetaData::clear leave the members of every
\* group as they were: every name that was a member of a group before the
\* call, F included, is a member of it afterwards, and no name has become
\* one.
C29_FieldTeardownKeepsMembers ==
    [][ op'.name \in {"MetaData::destroy", "MetaData::clear"}
        => \A n \in GroupNameSet :
             /\ AllGroups'[n] = AllGroups[n]
             /\ AllGroups[n] # Absent
                => /\ \A F \in FieldNameSet :
                        (F \in groupHeap'[AllGroups[n]].Fields)
                          <=> (F \in groupHeap[AllGroups[n]].Fields)
                   /\ hasField(groupHeap'[AllGroups[n]], op'.Name)
                        = hasField(groupHeap[AllGroups[n]], op'.Name) ]_vars

\* A field record that is a member of a group has just been destroyed: the
\* name has no record and is still a member.
C29_Witness ==
    /\ op.name = "MetaData::destroy"
    /\ ret = RetStatus(0)
    /\ AllFields[op.Name] = Absent
    /\ \E n \in GroupNameSet :
         /\ AllGroups[n] # Absent
         /\ op.Name \in groupHeap[AllGroups[n]].Fields

\* C30: in every state, for every group and every member name F of it,
\* getField(F) on the group is what MetaData::get(F) is in that state: the
\* record that AllFields holds under F now, or nullptr when it holds none.
\* When a record of that name destroyed earlier is still alive and a new one
\* has been created under the name, it is the new one and not nullptr.  A
\* call of getField for a member has returned that value.
C30_MembersReResolved ==
    /\ \A g \in GroupIds : \A F \in groupHeap[g].Fields :
         /\ getField(groupHeap[g], F) = (IF AllFields[F] = Absent THEN NULL ELSE AllFields[F])
         /\ ( /\ heldField # NULL
              /\ fieldHeap[heldField].FieldName = F
              /\ AllFields[F] \notin {Absent, heldField} )
            => getField(groupHeap[g], F) \notin {NULL, heldField}
    /\ ( /\ op.name = "MetaGroup::getField"
         /\ op.Name \in groupHeap[op.h].Fields )
       => ret = RetPtr(IF AllFields[op.Name] = Absent THEN NULL ELSE AllFields[op.Name])

\* getField has returned the record that the map holds under a member name
\* while an earlier record of that name, out of the map, is still alive in
\* the hands of a caller.
C30_Witness ==
    /\ op.name = "MetaGroup::getField"
    /\ op.Name \in groupHeap[op.h].Fields
    /\ heldField # NULL
    /\ fieldHeap[heldField].FieldName = op.Name
    /\ ret # RetPtr(NULL)
    /\ ret # RetPtr(heldField)
    /\ ret = RetPtr(AllFields[op.Name])

(***************************************************************************)
(* Records, dimensions and handles over their lifetime.                    *)
(***************************************************************************)
\* C31: every field record of the registry stores as many dimension names
\* as its NDims says, whatever create calls have been made.
C31_DimNameCount ==
    \A n \in FieldNameSet :
       AllFields[n] # Absent
         => Len(fieldHeap[AllFields[n]].DimNames) = fieldHeap[AllFields[n]].NDims

\* C32: the record that MetaData::create(Name) has just made has NDims = 0,
\* no dimension names and no entries, and is the record of the registry
\* under Name; a record gains an entry only by an addEntry of that entry on
\* that record.
C32_BareCreateEmpty ==
    [][ /\ ( op'.name = "MetaData::create" /\ ret' # RetPtr(NULL) )
           => /\ AllFields'[op'.Name] = ret'.v
              /\ fieldHeap'[ret'.v].FieldName = op'.Name
              /\ fieldHeap'[ret'.v].NDims = 0
              /\ fieldHeap'[ret'.v].DimNames = <<>>
              /\ \A e \in DOMAIN fieldHeap'[ret'.v].MetaMap :
                    fieldHeap'[ret'.v].MetaMap[e] = NoValue
        /\ \A i \in FieldIds : \A e \in DOMAIN fieldHeap[i].MetaMap :
              ( /\ fieldHeap[i].MetaMap[e] = NoValue
                /\ fieldHeap'[i].MetaMap[e] # NoValue )
              => /\ op'.name = "MetaData::addEntry"
                 /\ op'.h = i
                 /\ op'.Name = e
                 /\ ret' = RetStatus(0) ]_vars

\* The bare create has just made a record: it is in the registry and has no
\* entry and no dimension.
C32_Witness ==
    /\ op.name = "MetaData::create"
    /\ ret # RetPtr(NULL)
    /\ AllFields[op.Name] = ret.v
    /\ fieldHeap[ret.v].NDims = 0
    /\ fieldHeap[ret.v].DimNames = <<>>
    /\ \A e \in DOMAIN fieldHeap[ret.v].MetaMap : fieldHeap[ret.v].MetaMap[e] = NoValue

\* C33: a name that is defined before and after a step has the same
\* dimension object and the same length after it as before; a dimension
\* object that stays alive keeps its length; a name stops being defined
\* only by a destroy of that name that returns 0 or by clear, and a name
\* that is not defined becomes defined only by a create of that name, which
\* succeeds with whatever length it is given: so the length under a name
\* changes only by destroy or clear followed by a new create.
C33_LengthStable ==
    [][ /\ \A D \in DimNameSet :
             /\ (AllDims[D] # Absent /\ AllDims'[D] # Absent)
                => /\ AllDims'[D] = AllDims[D]
                   /\ dimHeap'[AllDims'[D]].Length = dimHeap[AllDims[D]].Length
             /\ (AllDims[D] # Absent /\ AllDims'[D] = Absent)
                => \/ op'.name = "MetaDim::destroy" /\ op'.Name = D /\ ret' = RetStatus(0)
                   \/ op'.name = "MetaDim::clear"
             /\ (AllDims[D] = Absent /\ AllDims'[D] # Absent)
                => /\ op'.name = "MetaDim::create"
                   /\ op'.Name = D
                   /\ dimHeap'[AllDims'[D]].Length = op'.num
             /\ (op'.name = "MetaDim::create" /\ op'.Name = D /\ AllDims[D] = Absent)
                => /\ ret' # RetPtr(NULL)
                   /\ AllDims'[D] = ret'.v
                   /\ dimHeap'[ret'.v].Length = op'.num
        /\ \A i \in DimIds :
             (dimHeap[i].DimName # "" /\ dimHeap'[i].DimName # "")
             => dimHeap'[i] = dimHeap[i] ]_vars

\* A create has just defined a name with a length other than the one it had
\* before it was destroyed or cleared: the earlier dimension object, kept
\* alive by a caller, still has the earlier length.
C33_Witness ==
    /\ op.name = "MetaDim::create"
    /\ ret # RetPtr(NULL)
    /\ AllDims[op.Name] = ret.v
    /\ dimHeap[ret.v].Length = op.num
    /\ heldDim \notin {NULL, ret.v}
    /\ dimHeap[heldDim].DimName = op.Name
    /\ dimHeap[heldDim].Length # op.num

\* C34: after a destroy that returns 0 the name, and after a clear every
\* name, has no record (no group for MetaGroup::destroy), so that a create
\* of that name is a create on a free name.  Each form of MetaData::create
\* on a free name succeeds and registers a new record, distinct from any
\* record a caller still holds, with no entry other than those the call
\* gives (none for the bare form, the six required ones for the full form,
\* the names of the pairs for the pair-list form) and with the dimensions
\* the call gives (none for the bare and the pair-list form); the record a
\* caller holds is not changed by it.  MetaGroup::create on a free name
\* succeeds and registers a new group, distinct from a group a caller still
\* holds, with no member.
C34_RecreateFresh ==
    [][ /\ (op'.name = "MetaData::destroy" /\ ret' = RetStatus(0)) => AllFields'[op'.Name] = Absent
        /\ op'.name = "MetaData::clear" => \A n \in FieldNameSet : AllFields'[n] = Absent
        /\ (op'.name = "MetaGroup::destroy" /\ ret' = RetStatus(0)) => AllGroups'[op'.Name] = Absent
        /\ (op'.name \in FieldCreates /\ AllFields[op'.Name] = Absent)
           => /\ ret'.t = "ptr" /\ ret'.v # NULL
              /\ AllFields'[op'.Name] = ret'.v
              /\ ret'.v # heldField
              /\ heldField # NULL => fieldHeap'[heldField] = fieldHeap[heldField]
              /\ fieldHeap'[ret'.v].FieldName = op'.Name
              /\ op'.name = "MetaData::create"
                   => /\ fieldHeap'[ret'.v].MetaMap = [e \in EntryNameSet |-> NoValue]
                      /\ fieldHeap'[ret'.v].NDims = 0
                      /\ fieldHeap'[ret'.v].DimNames = <<>>
              /\ op'.name = "MetaData::create(full)"
                   => /\ \A e \in EntryNameSet \ RequiredEntries :
                            fieldHeap'[ret'.v].MetaMap[e] = NoValue
                      /\ fieldHeap'[ret'.v].NDims = op'.num
                      /\ \A Dimensions \in DimSeqs :
                            MetaData_createFull(op'.Name, 1, 2, 1, AnyOf("R8", 1), AnyOf("R8", 2),
                                                op'.Value, op'.num, Dimensions)
                            => fieldHeap'[ret'.v].DimNames = Dimensions
              /\ op'.name = "MetaData::create(pairs)"
                   => /\ fieldHeap'[ret'.v].NDims = 0
                      /\ fieldHeap'[ret'.v].DimNames = <<>>
                      /\ \A MetaPairs \in HeldPairLists :
                            MetaData_createPairs(op'.Name, MetaPairs)
                            => \A e \in EntryNameSet \ PairNames(MetaPairs) :
                                  fieldHeap'[ret'.v].MetaMap[e] = NoValue
        /\ (op'.name = "MetaGroup::create" /\ AllGroups[op'.Name] = Absent)
           => /\ ret'.t = "ptr" /\ ret'.v # NULL
              /\ AllGroups'[op'.Name] = ret'.v
              /\ ret'.v # heldGroup
              /\ heldGroup # NULL => groupHeap'[heldGroup] = groupHeap[heldGroup]
              /\ groupHeap'[ret'.v].GrpName = op'.Name
              /\ groupHeap'[ret'.v].Fields = {} ]_vars

\* The pair-list create has just made a new record under a name whose
\* earlier record, made by the full form and given another entry, is still
\* alive in the hands of a caller: the new one has none of its entries and
\* dimensions.  The group of the registry is a new one without members,
\* while the earlier group of that name, still alive in the hands of a
\* caller, has one.
C34_Witness ==
    /\ op.name = "MetaData::create(pairs)"
    /\ ret # RetPtr(NULL)
    /\ AllFields[op.Name] = ret.v
    /\ heldField \notin {NULL, ret.v}
    /\ fieldHeap[heldField].FieldName = op.Name
    /\ fieldHeap[heldField].NDims = 1
    /\ fieldHeap[heldField].MetaMap["E1"] # NoValue
    /\ fieldHeap[heldField].MetaMap["FillValue"] # NoValue
    /\ fieldHeap[ret.v].NDims = 0
    /\ fieldHeap[ret.v].DimNames = <<>>
    /\ fieldHeap[ret.v].MetaMap["E1"] = NoValue
    /\ fieldHeap[ret.v].MetaMap["FillValue"] = NoValue
    /\ heldGroup # NULL
    /\ groupHeap[heldGroup].Fields # {}
    /\ \E n \in GroupNameSet :
         /\ groupHeap[heldGroup].GrpName = n
         /\ AllGroups[n] \notin {Absent, heldGroup}
         /\ groupHeap[AllGroups[n]].Fields = {}

\* The place of an entry name in the order of the keys of a std::map.
EntryPos(e) == CHOOSE k \in 1..Len(EntryNameSeq) : EntryNameSeq[k] = e

\* C35: as long as the record is alive, a loop over the map that
\* getAllEntries pointed to finds exactly the entries the record has at that
\* moment, each once with its value, in ascending order of the names: an
\* entry added by addEntry after the pointer was taken is found, one removed
\* by removeEntry is not.  An entry inserted through the pointer is seen by
\* hasEntry, getEntry and addEntry on the record, and one erased through it
\* is gone for them.
C35_AllEntriesLiveView ==
    [][ /\ (op'.name = "VarMeta walk" /\ heldMap \in FieldIds)
           => LET w == out'.Entries
                  M == fieldHeap[heldMap].MetaMap IN
              /\ ret' = RetVoid
              /\ {w[i].first : i \in DOMAIN w} = {e \in DOMAIN M : M[e] # NoValue}
              /\ \A i \in DOMAIN w : w[i].second = M[w[i].first]
              /\ \A i, j \in DOMAIN w : i < j => EntryPos(w[i].first) < EntryPos(w[j].first)
              /\ (op.name = "MetaData::addEntry" /\ ret = RetStatus(0) /\ op.h = heldMap)
                    => \E i \in DOMAIN w : w[i] = [first |-> op.Name, second |-> op.Value]
              /\ (op.name = "MetaData::removeEntry" /\ ret = RetStatus(0) /\ op.h = heldMap)
                    => \A i \in DOMAIN w : w[i].first # op.Name
        /\ ( /\ op.name = "VarMeta->insert" /\ ret = RetBool(TRUE)
             /\ heldMap \in FieldIds /\ op'.h = heldMap /\ op'.Name = op.Name )
           => /\ op'.name = "MetaData::hasEntry" => ret' = RetBool(TRUE)
              /\ op'.name = "MetaData::addEntry"
                    => ret' = RetStatus(-1) /\ fieldHeap' = fieldHeap
              /\ (op'.name = "MetaData::getEntry" /\ op'.Value.kind = op.Value.kind)
                    => ret' = RetStatus(0) /\ out'.Value = op.Value
        /\ ( /\ op.name = "VarMeta->erase" /\ ret = RetInt(1)
             /\ heldMap \in FieldIds /\ op'.h = heldMap /\ op'.Name = op.Name )
           => /\ op'.name = "MetaData::hasEntry" => ret' = RetBool(FALSE)
              /\ op'.name = "MetaData::addEntry"
                    => /\ ret' = RetStatus(0)
                       /\ fieldHeap'[heldMap].MetaMap[op'.Name] = op'.Value
              /\ op'.name = "MetaData::getEntry" => ret'.t = "status" /\ ret'.v # 0 ]_vars

\* A loop over the map of a registered record, through a pointer taken by a
\* caller that holds nothing else, has found two entries of different kinds
\* in the order of their names.
C35_Witness ==
    /\ op.name = "VarMeta walk"
    /\ ret = RetVoid
    /\ heldField = NULL
    /\ heldMap \in FieldIds
    /\ \E n \in FieldNameSet : AllFields[n] = heldMap
    /\ Len(out.Entries) = 2
    /\ out.Entries[1].first = "E1"
    /\ out.Entries[2].first = "E2"
    /\ out.Entries[1].second.kind # out.Entries[2].second.kind

Queries ==
    {"MetaDim::has", "MetaDim::get", "MetaDim::getLength", "MetaDim::getDimLength",
     "MetaDim::getNumDefinedDims", "MetaData::has", "MetaData::get", "MetaData::hasEntry",
     "MetaData::getEntry", "MetaData::getNumDims", "MetaData::getDimNames",
     "MetaGroup::has", "MetaGroup::get", "MetaGroup::hasField", "MetaGroup::getField",
     "MetaGroup::getFieldList"}

\* C36: has, get, getLength, getDimLength, getNumDefinedDims, hasEntry,
\* getEntry, getNumDims, getDimNames, hasField, getField and getFieldList
\* leave the three maps and every dimension, record and group as they were,
\* whatever they return and whether the name they are given is defined or
\* not: no name gets into a map by being looked up, and a has (hasEntry,
\* hasField) of a name made right after a lookup of it that failed returns
\* false.
C36_QueriesPure ==
    [][ /\ op'.name \in Queries
           => /\ AllDims' = AllDims
              /\ dimHeap' = dimHeap
              /\ AllFields' = AllFields
              /\ fieldHeap' = fieldHeap
              /\ AllGroups' = AllGroups
              /\ groupHeap' = groupHeap
              /\ \A n \in DOMAIN AllDims : AllDims[n] = Absent => AllDims'[n] = Absent
              /\ \A n \in DOMAIN AllFields : AllFields[n] = Absent => AllFields'[n] = Absent
              /\ \A n \in DOMAIN AllGroups : AllGroups[n] = Absent => AllGroups'[n] = Absent
        /\ ( /\ \/ op.name = "MetaDim::get" /\ ret = RetPtr(NULL)
                \/ op.name = "MetaDim::getDimLength" /\ ret = RetInt(-1)
             /\ op'.name = "MetaDim::has" /\ op'.Name = op.Name )
           => ret' = RetBool(FALSE)
        /\ ( /\ op.name = "MetaData::get" /\ ret = RetPtr(NULL)
             /\ op'.name = "MetaData::has" /\ op'.Name = op.Name )
           => ret' = RetBool(FALSE)
        /\ ( /\ op.name = "MetaGroup::get" /\ ret = RetPtr(NULL)
             /\ op'.name = "MetaGroup::has" /\ op'.Name = op.Name )
           => ret' = RetBool(FALSE)
        /\ ( /\ op.name = "MetaData::getEntry" /\ ret = RetStatus(-1)
             /\ op'.name = "MetaData::hasEntry" /\ op'.h = op.h /\ op'.Name = op.Name )
           => ret' = RetBool(FALSE)
        /\ ( /\ op.name = "MetaGroup::getField" /\ ret = RetPtr(NULL)
             /\ AllFields[op.Name] # Absent
             /\ op'.name = "MetaGroup::hasField" /\ op'.h = op.h /\ op'.Name = op.Name )
           => ret' = RetBool(FALSE) ]_vars

\* get has just returned nullptr for a field name that has no record, while
\* the other field name has a record with an entry, a dimension is defined
\* and a group has a member: the name is still not in the map.
C36_Witness ==
    /\ op.name = "MetaData::get"
    /\ ret = RetPtr(NULL)
    /\ AllFields[op.Name] = Absent
    /\ \E n \in FieldNameSet : AllFields[n] # Absent /\ fieldHeap[AllFields[n]].MetaMap["E1"] # NoValue
    /\ \E n \in DimNameSet : AllDims[n] # Absent
    /\ \E n \in GroupNameSet : AllGroups[n] # Absent /\ groupHeap[AllGroups[n]].Fields # {}

\* C37: unregisterFields leaves neither FluxLayerThickEdge nor
\* MeanLayerThickEdge defined, whichever of the two was defined before it
\* (the second destroy is made when the first one fails), and changes no
\* other field name, no dimension and no group.  A registerFields made when
\* neither name is defined, as it is right after unregisterFields, returns
\* and has created both records anew, each with two dimension names and the
\* six required entries.
C37_RegisterUnregister ==
    [][ /\ op'.name = "LayerThicknessAuxVars::unregisterFields"
           => /\ AllFields'[FluxLayerThickEdge] = Absent
              /\ AllFields'[MeanLayerThickEdge] = Absent
              /\ \A n \in FieldNameSet \ {FluxLayerThickEdge, MeanLayerThickEdge} :
                    AllFields'[n] = AllFields[n]
              /\ heldField # NULL => fieldHeap'[heldField] = fieldHeap[heldField]
              /\ UNCHANGED <<dimVars, groupVars>>
        /\ ( /\ op'.name = "LayerThicknessAuxVars::registerFields"
             /\ \/ op.name = "LayerThicknessAuxVars::unregisterFields"
                \/ /\ AllFields[FluxLayerThickEdge] = Absent
                   /\ AllFields[MeanLayerThickEdge] = Absent )
           => /\ ret' = RetVoid
              /\ \A n \in {FluxLayerThickEdge, MeanLayerThickEdge} :
                    /\ AllFields'[n] \notin {Absent, NULL, heldField}
                    /\ fieldHeap[AllFields'[n]] = FreeField
                    /\ fieldHeap'[AllFields'[n]].FieldName = n
                    /\ fieldHeap'[AllFields'[n]].NDims = 2
                    /\ fieldHeap'[AllFields'[n]].DimNames = AuxDimNames
                    /\ \A e \in RequiredEntries : fieldHeap'[AllFields'[n]].MetaMap[e] # NoValue
              /\ AllFields'[FluxLayerThickEdge] # AllFields'[MeanLayerThickEdge] ]_vars

\* registerFields has just created both records while a caller still holds
\* the record that an earlier registerFields made under the first name and
\* that has been destroyed since.
C37_Witness ==
    /\ op.name = "LayerThicknessAuxVars::registerFields"
    /\ ret = RetVoid
    /\ AllFields[FluxLayerThickEdge] # Absent
    /\ AllFields[MeanLayerThickEdge] # Absent
    /\ heldField \notin {NULL, AllFields[FluxLayerThickEdge]}
    /\ fieldHeap[heldField].FieldName = FluxLayerThickEdge
    /\ fieldHeap[heldField].DimNames = AuxDimNames
    /\ fieldHeap[AllFields[FluxLayerThickEdge]].DimNames = AuxDimNames
    /\ fieldHeap[AllFields[MeanLayerThickEdge]].DimNames = AuxDimNames

\* C38: a dimension, record or group that a caller holds is left as it is
\* by every destroy and clear and by every create, so it stays usable:
\* getLength through a held dimension returns its length, and addEntry,
\* removeEntry, addField and removeField through a held record or group act
\* on it as on any other.  Once its name has been destroyed or cleared,
\* these calls change neither the maps nor any object of the registries, a
\* get of the name returns nullptr or a new object and never the held one,
\* and an object created under the name is another object than the held
\* one.
C38_HeldHandleDetached ==
    [][ /\ op'.name \in {"MetaDim::destroy", "MetaDim::clear", "MetaDim::create",
                         "MetaData::destroy", "MetaData::clear", "MetaData::create",
                         "MetaGroup::destroy", "MetaGroup::create"}
           => /\ heldDim # NULL => dimHeap'[heldDim] = dimHeap[heldDim]
              /\ heldField # NULL => fieldHeap'[heldField] = fieldHeap[heldField]
              /\ heldGroup # NULL => groupHeap'[heldGroup] = groupHeap[heldGroup]
              /\ heldDim' = heldDim /\ heldField' = heldField /\ heldGroup' = heldGroup
        /\ (op'.name = "MetaDim::getLength" /\ op'.h = heldDim)
           => ret' = RetInt(dimHeap[heldDim].Length)
        /\ ( /\ op'.name \in {"MetaData::addEntry", "MetaData::removeEntry"}
             /\ op'.h = heldField
             /\ \A n \in FieldNameSet : AllFields[n] # heldField )
           => /\ ret' = RetStatus(0)
                   <=> (fieldHeap[heldField].MetaMap[op'.Name] = NoValue)
                          = (op'.name = "MetaData::addEntry")
              /\ ret' = RetStatus(0)
                   => (fieldHeap'[heldField].MetaMap[op'.Name] # NoValue)
                          = (op'.name = "MetaData::addEntry")
              /\ AllFields' = AllFields
              /\ \A i \in FieldIds \ {heldField} : fieldHeap'[i] = fieldHeap[i]
        /\ ( /\ op'.name \in {"MetaGroup::addField", "MetaGroup::removeField"}
             /\ op'.h = heldGroup
             /\ \A n \in GroupNameSet : AllGroups[n] # heldGroup )
           => /\ (op'.Name \in groupHeap'[heldGroup].Fields)
                   = (op'.name = "MetaGroup::addField")
              /\ AllGroups' = AllGroups
              /\ \A i \in GroupIds \ {heldGroup} : groupHeap'[i] = groupHeap[i]
        /\ ( /\ op'.name = "MetaDim::get"
             /\ heldDim # NULL /\ \A n \in DimNameSet : AllDims[n] # heldDim )
           => /\ ret'.v # heldDim
              /\ ret' = RetPtr(IF AllDims[op'.Name] = Absent THEN NULL ELSE AllDims[op'.Name])
        /\ ( /\ op'.name = "MetaData::get"
             /\ heldField # NULL /\ \A n \in FieldNameSet : AllFields[n] # heldField )
           => /\ ret'.v # heldField
              /\ ret' = RetPtr(IF AllFields[op'.Name] = Absent THEN NULL ELSE AllFields[op'.Name])
        /\ ( /\ op'.name = "MetaGroup::get"
             /\ heldGroup # NULL /\ \A n \in GroupNameSet : AllGroups[n] # heldGroup )
           => /\ ret'.v # heldGroup
              /\ ret' = RetPtr(IF AllGroups[op'.Name] = Absent THEN NULL ELSE AllGroups[op'.Name])
        /\ ( /\ op'.name \in {"MetaDim::has", "MetaData::has", "MetaGroup::has"} )
           => ret' = RetBool(CASE op'.name = "MetaDim::has" -> AllDims[op'.Name] # Absent
                               [] op'.name = "MetaData::has" -> AllFields[op'.Name] # Absent
                               [] OTHER -> AllGroups[op'.Name] # Absent)
        /\ (op'.name = "MetaDim::create" /\ AllDims[op'.Name] = Absent)
           => ret'.v \notin {NULL, heldDim}
        /\ (op'.name = "MetaData::create" /\ AllFields[op'.Name] = Absent)
           => ret'.v \notin {NULL, heldField}
        /\ (op'.name = "MetaGroup::create" /\ AllGroups[op'.Name] = Absent)
           => ret'.v \notin {NULL, heldGroup} ]_vars

\* addEntry has just added an entry to a record that a caller holds and that
\* was destroyed; a new record is registered under its name and does not
\* have the entry.  The caller also holds a dimension and a group that were
\* destroyed, while a new dimension and a new group have their names; the
\* held group has a member and the new one has none.
C38_Witness ==
    /\ op.name = "MetaData::addEntry"
    /\ ret = RetStatus(0)
    /\ op.h = heldField
    /\ fieldHeap[heldField].MetaMap[op.Name] # NoValue
    /\ AllFields[fieldHeap[heldField].FieldName] \notin {Absent, heldField}
    /\ fieldHeap[AllFields[fieldHeap[heldField].FieldName]].MetaMap[op.Name] = NoValue
    /\ heldDim # NULL
    /\ AllDims[dimHeap[heldDim].DimName] \notin {Absent, heldDim}
    /\ heldGroup # NULL
    /\ AllGroups[groupHeap[heldGroup].GrpName] \notin {Absent, heldGroup}
    /\ groupHeap[heldGroup].Fields # {}
    /\ groupHeap[AllGroups[groupHeap[heldGroup].GrpName]].Fields = {}

\* C39: addField and removeField on a group change at most the membership
\* of the one name in that group: every other group keeps its members, the
\* map of groups, the map of fields and every field record are unchanged,
\* and addField makes the name a member whatever groups it is a member of
\* already.  MetaGroup::destroy of a name leaves every other name with its
\* group and the members of it, and the map of fields and every field
\* record unchanged.
C39_GroupsIndependent ==
    [][ /\ op'.name \in {"MetaGroup::addField", "MetaGroup::removeField"}
           => /\ \A i \in GroupIds \ {op'.h} : groupHeap'[i] = groupHeap[i]
              /\ groupHeap'[op'.h].Fields \ {op'.Name} = groupHeap[op'.h].Fields \ {op'.Name}
              /\ groupHeap'[op'.h].GrpName = groupHeap[op'.h].GrpName
              /\ AllGroups' = AllGroups
              /\ AllFields' = AllFields
              /\ fieldHeap' = fieldHeap
        /\ op'.name = "MetaGroup::addField"
           => /\ op'.Name \in groupHeap'[op'.h].Fields
              /\ \A i \in GroupIds \ {op'.h} :
                    (op'.Name \in groupHeap'[i].Fields) = (op'.Name \in groupHeap[i].Fields)
        /\ op'.name = "MetaGroup::destroy"
           => /\ \A n \in GroupNameSet \ {op'.Name} :
                    /\ AllGroups'[n] = AllGroups[n]
                    /\ AllGroups[n] # Absent
                          => groupHeap'[AllGroups[n]] = groupHeap[AllGroups[n]]
              /\ AllFields' = AllFields
              /\ fieldHeap' = fieldHeap ]_vars

\* addField has just made a name that has a field record a member of a
\* second group: it is a member of two groups of the registry.
C39_Witness ==
    /\ op.name = "MetaGroup::addField"
    /\ ret = RetStatus(0)
    /\ AllFields[op.Name] # Absent
    /\ \A n \in GroupNameSet :
         /\ AllGroups[n] # Absent
         /\ op.Name \in groupHeap[AllGroups[n]].Fields
    /\ \E n, m \in GroupNameSet : AllGroups[n] # AllGroups[m]

====
